---- MODULE Spec2Model ----
(***************************************************************************)
(* The bookmark store (zustand store `useBookmarkStore`), its optimistic   *)
(* mutations with their remote writes and rollbacks, the realtime merge    *)
(* actions, the full refetch, and the import committer of                  *)
(* ImportBookmarksDialog.                                                  *)
(*                                                                         *)
(* A bookmark is a record with the fields the store reads or writes; the   *)
(* presentation-only fields (title, description, favicon, thumbnail) are   *)
(* carried along untouched by every action and are left out.               *)
(***************************************************************************)
EXTENDS Integers, Sequences, FiniteSets, TLC

\* ------------------------------------------------------------------ bounds
\* number of generateId() calls the user's actions make in one run
MaxIds == 2
\* number of timestamps (new Date()) the user's actions take in one run
MaxClock == 1
\* number of remote writes in flight at the same time
MaxPending == 1
MaxPath == 3
MaxChildren == 3
MaxLimit == 4
MaxEvents == 3

\* ------------------------------------------------------------------ values
\* crypto.randomUUID(): the n-th call returns the n-th fresh id
GenIds == <<"id1", "id2", "id3", "id4", "id5", "id6", "id7", "id8", "id9", "id10",
           "id11", "id12", "id13", "id14", "id15", "id16">>

generateId(n) == GenIds[n]

\* ids of rows written by another device
RemoteBookmarkId == "rb"
RemoteCollectionId == "rc"
RemoteTagId == "rt"

defaultCollections ==
    << [id |-> "all", name |-> "All Bookmarks", isSystem |-> TRUE],
       [id |-> "unsorted", name |-> "Unsorted", isSystem |-> TRUE] >>

defaultTags == << >>

\* ------------------------------------------------------------------ helpers
\* Array.prototype.filter is SelectSeq; map / some / find on sequences
Map(s, F(_)) == [i \in DOMAIN s |-> F(s[i])]

Range(s) == {s[i] : i \in DOMAIN s}

Some(s, P(_)) == \E i \in DOMAIN s : P(s[i])

\* Array.prototype.find: the first match as a one-element list, << >> for undefined
Find(s, P(_)) ==
    IF Some(s, P)
    THEN << s[CHOOSE i \in DOMAIN s : P(s[i]) /\ \A j \in 1..(i - 1) : ~P(s[j])] >>
    ELSE << >>

\* object spread { ...b, ...updates }
Spread(b, updates) ==
    [f \in DOMAIN b \cup DOMAIN updates |->
        IF f \in DOMAIN updates THEN updates[f] ELSE b[f]]

Ids(s) == {s[i].id : i \in DOMAIN s}

\* ------------------------------------------------------------------ state
VARIABLES
    bookmarks,      \* state.bookmarks: Bookmark[]
    collections,    \* state.collections: Collection[]
    tags,           \* state.tags: Tag[]
    user,           \* state.user: "none" for null
    isSyncing,      \* state.isSyncing
    demo,           \* isDemoMode(): fixed by the build environment
    configured,     \* isSupabaseConfigured(): fixed by the build environment
    online,         \* navigator.onLine
    nextId,         \* number of generateId() calls made so far
    clock,          \* number of timestamps taken so far
    pending,        \* remote writes awaited by store actions, each with the
                    \* snapshot the action's closure captured
    fetching,       \* TRUE while fetchFromSupabase awaits its three selects
    imp,            \* the import dialog: its React state and the locals of a
                    \* running handleImport; with them three observers: the
                    \* store as handleImport found it (before), the folder
                    \* names handed to addCollection (created) and the urls
                    \* handed to addBookmark (attempted)
    local,          \* a second store, with no backend configured, that is
                    \* given the same calls
    last,           \* observer: the action that ran last, its target id and
                    \* the number of bookmarks its cascade touched
    pre,            \* observer: bookmarks, collections and tags as they were
                    \* before the last action, kept while that action's write
                    \* is in flight and through its rollback
    hook,           \* useSupabaseAuth: its refs, its isLoading state and the
                    \* position of each of its asynchronous tasks
    call,           \* a call of a function of bookmark-parser.ts: the
                    \* function, its argument and what it returned
    stored,         \* the value kept in IndexedDB under the store's key,
                    \* followed where the persist options are what is modelled
    net             \* the backend's side, followed where writes, the change
                    \* feed and refetches race: the rows of the bookmarks
                    \* table, the result of a select in flight, the change
                    \* events not yet delivered; with them observers: per
                    \* bookmark, the flags set by the updates the backend
                    \* confirmed or the change feed delivered (due), the
                    \* number of steps begun, whether a write was rejected

storeVars == <<bookmarks, collections, tags>>
envVars == <<user, isSyncing, demo, configured, online>>
vars == <<bookmarks, collections, tags, user, isSyncing, demo, configured,
          online, nextId, clock, pending, fetching, imp, local, last, pre,
          hook, call, stored, net>>

\* the hook before it is mounted, and no call made
NoHook == << >>

NoCall == << >>

\* get(name) finds nothing under the key
NoBlob == << >>

\* the backend's side is not followed
NoNet == << >>

\* the remote writes that can be awaited at once: one more where the
\* backend's side is followed
Backlog == IF net = NoNet THEN MaxPending ELSE MaxPending + 1

Store == [bookmarks |-> bookmarks, collections |-> collections, tags |-> tags]

\* set(st): the store takes the lists of st
Put(st) ==
    /\ bookmarks' = st.bookmarks
    /\ collections' = st.collections
    /\ tags' = st.tags

\* isSupabaseConfigured() && supabase && user
Backend == configured /\ user # "none"

\* an id no record of the store carries
MissingId == "missing"

\* the ids an action on a list can be aimed at: those of its records, and one
\* that is not in the store
Targets(s) == Ids(s) \cup {MissingId}

\* a URL string is a sequence of tokens: a scheme with its "//", host letters
\* in either case, "/" and path letters, "?" and query letters
UrlA == <<"http://", "a">>

Names == {"n1", "n2"}

\* a store action that awaits a remote write: the write is handed to the
\* backend when a session is active, and the closure keeps the snapshot
Await(w) ==
    IF Backend
    THEN /\ Len(pending) < Backlog
         /\ pending' = Append(pending, w)
    ELSE pending' = pending

NoOp == UNCHANGED <<storeVars, nextId, clock, pending>>

\* ------------------------------------------------------------------ bookmark actions
\* the collections a dialog offers (AddBookmarkDialog lists every collection
\* of the store and starts at 'unsorted')
CollectionChoices == Ids(collections) \cup {"unsorted"}

\* the tag selections a dialog offers
TagChoices == {<< >>} \cup {<< tags[i].id >> : i \in DOMAIN tags}

\* the record addBookmark builds from its argument, a fresh id and the time
NewBookmark(url, collectionId, tagIds, isFavorite, id, now) ==
    [id |-> id, url |-> url, collectionId |-> collectionId,
     tags |-> tagIds, isFavorite |-> isFavorite,
     isTrashed |-> FALSE, isArchived |-> FALSE,
     isPinned |-> FALSE, createdAt |-> now, updatedAt |-> now]

\* the optimistic set() of addBookmark
SetAddBookmark(st, newBookmark) ==
    [st EXCEPT !.bookmarks = Append(@, newBookmark)]

\* addBookmark(bookmark)
addBookmark(url, collectionId, tagIds, isFavorite) ==
    /\ IF demo
       THEN NoOp
       ELSE /\ LET id == generateId(nextId + 1)
                   now == clock + 1
               IN /\ Put(SetAddBookmark(Store,
                         NewBookmark(url, collectionId, tagIds, isFavorite, id, now)))
                  /\ Await([op |-> "addBookmark", id |-> id, prev |-> << >>,
                            row |-> NewBookmark(url, collectionId, tagIds,
                                                isFavorite, id, now)])
            /\ nextId' = nextId + 1
            /\ clock' = clock + 1
    /\ UNCHANGED <<envVars, fetching>>

\* the optimistic set() of updateBookmark
SetUpdateBookmark(st, id, updates, now) ==
    [st EXCEPT !.bookmarks = Map(@, LAMBDA b :
        IF b.id = id THEN Spread(b, Spread(updates, [updatedAt |-> now])) ELSE b)]

\* the body of updateBookmark(id, updates) once demo mode is excluded
UpdateBody(id, updates) ==
    /\ LET now == clock + 1
           previousBookmark == Find(bookmarks, LAMBDA b : b.id = id)
       IN /\ Put(SetUpdateBookmark(Store, id, updates, now))
          /\ Await([op |-> "updateBookmark", id |-> id, prev |-> previousBookmark,
                    row |-> Spread(updates, [updatedAt |-> now])])
    /\ clock' = clock + 1
    /\ UNCHANGED nextId

\* updateBookmark(id, updates)
updateBookmark(id, updates) ==
    /\ IF demo THEN NoOp ELSE UpdateBody(id, updates)
    /\ UNCHANGED <<envVars, fetching>>

\* the optimistic set() of deleteBookmark
SetDeleteBookmark(st, id) ==
    [st EXCEPT !.bookmarks = SelectSeq(@, LAMBDA b : b.id # id)]

\* the body of deleteBookmark(id) once demo mode is excluded
DeleteBody(id) ==
    /\ LET deletedBookmark == Find(bookmarks, LAMBDA b : b.id = id)
       IN /\ Put(SetDeleteBookmark(Store, id))
          /\ Await([op |-> "deleteBookmark", id |-> id, prev |-> deletedBookmark])
    /\ UNCHANGED <<nextId, clock>>

\* deleteBookmark(id)
deleteBookmark(id) ==
    /\ IF demo THEN NoOp ELSE DeleteBody(id)
    /\ UNCHANGED <<envVars, fetching>>

\* the updates toggleFavorite / toggleArchive / togglePin pass on for the
\* bookmark they looked up in st, << >> when there is none
Flip(st, field, id) ==
    LET bookmark == Find(st.bookmarks, LAMBDA b : b.id = id)
    IN IF bookmark # << >>
       THEN << [f \in {field} |-> ~bookmark[1][field]] >>
       ELSE << >>

Toggle(field, id) ==
    /\ LET updates == Flip(Store, field, id)
       IN IF updates # << >>
          THEN IF demo THEN NoOp ELSE UpdateBody(id, updates[1])
          ELSE NoOp
    /\ UNCHANGED <<envVars, fetching>>

toggleFavorite(id) == Toggle("isFavorite", id)

toggleArchive(id) == Toggle("isArchived", id)

togglePin(id) == Toggle("isPinned", id)

\* moveToTrash(id)
moveToTrash(id) ==
    /\ IF demo THEN NoOp ELSE UpdateBody(id, [isTrashed |-> TRUE])
    /\ UNCHANGED <<envVars, fetching>>

\* restoreFromTrash(id)
restoreFromTrash(id) ==
    /\ IF demo THEN NoOp ELSE UpdateBody(id, [isTrashed |-> FALSE])
    /\ UNCHANGED <<envVars, fetching>>

\* permanentlyDelete(id)
permanentlyDelete(id) ==
    /\ IF demo THEN NoOp ELSE DeleteBody(id)
    /\ UNCHANGED <<envVars, fetching>>

\* the optimistic set() of emptyTrash
SetEmptyTrash(st) ==
    [st EXCEPT !.bookmarks = SelectSeq(@, LAMBDA b : ~b.isTrashed)]

\* emptyTrash()
emptyTrash ==
    /\ LET trashedBookmarks == SelectSeq(bookmarks, LAMBDA b : b.isTrashed)
       IN IF demo \/ trashedBookmarks = << >>
          THEN NoOp
          ELSE /\ Put(SetEmptyTrash(Store))
               /\ Await([op |-> "emptyTrash", id |-> "", prev |-> trashedBookmarks])
               /\ UNCHANGED <<nextId, clock>>
    /\ UNCHANGED <<envVars, fetching>>

\* ------------------------------------------------------------------ collection actions
\* the optimistic set() of addCollection
SetAddCollection(st, newCollection) ==
    [st EXCEPT !.collections = Append(@, newCollection)]

NewCollection(name, id) == [id |-> id, name |-> name, isSystem |-> FALSE]

\* addCollection(name, icon, color); demo mode returns a dummy id
addCollection(name) ==
    /\ nextId' = nextId + 1
    /\ IF demo
       THEN UNCHANGED <<storeVars, pending>>
       ELSE LET id == generateId(nextId + 1)
            IN /\ Put(SetAddCollection(Store, NewCollection(name, id)))
               /\ Await([op |-> "addCollection", id |-> id, prev |-> << >>])
    /\ UNCHANGED <<envVars, fetching, clock>>

\* the optimistic set() of updateCollection
SetUpdateCollection(st, id, updates) ==
    [st EXCEPT !.collections = Map(@, LAMBDA c :
        IF c.id = id /\ ~c.isSystem THEN Spread(c, updates) ELSE c)]

\* updateCollection(id, updates)
updateCollection(id, updates) ==
    /\ IF demo THEN NoOp
       ELSE LET previousCollection == Find(collections, LAMBDA c : c.id = id)
            IN /\ Put(SetUpdateCollection(Store, id, updates))
               /\ Await([op |-> "updateCollection", id |-> id,
                         prev |-> previousCollection])
               /\ UNCHANGED <<nextId, clock>>
    /\ UNCHANGED <<envVars, fetching>>

\* a delete that cascades to the bookmarks of the collection
SetDeleteCollectionCascading(st, id) ==
    [st EXCEPT
        !.collections = SelectSeq(@, LAMBDA c : c.id # id /\ ~c.isSystem),
        !.bookmarks = SelectSeq(@, LAMBDA b : b.collectionId # id)]

\* the set() of deleteCollection and of deleteCollectionFromRemote
SetDeleteCollection(st, id) ==
    [st EXCEPT
        !.collections = SelectSeq(@, LAMBDA c : c.id # id /\ ~c.isSystem),
        !.bookmarks = Map(@, LAMBDA b :
            IF b.collectionId = id
            THEN Spread(b, [collectionId |-> "unsorted"]) ELSE b)]

\* deleteCollection(id) without its first line, the demo check
deleteCollectionUnchecked(id) ==
    /\ LET deletedCollection == Find(collections, LAMBDA c : c.id = id)
       IN /\ Put(SetDeleteCollection(Store, id))
          /\ Await([op |-> "deleteCollection", id |-> id,
                    prev |-> deletedCollection])
          /\ UNCHANGED <<nextId, clock>>
    /\ UNCHANGED <<envVars, fetching>>

\* deleteCollection(id)
deleteCollection(id) ==
    /\ IF demo THEN NoOp
       ELSE LET deletedCollection == Find(collections, LAMBDA c : c.id = id)
            IN /\ Put(SetDeleteCollection(Store, id))
               /\ Await([op |-> "deleteCollection", id |-> id,
                         prev |-> deletedCollection])
               /\ UNCHANGED <<nextId, clock>>
    /\ UNCHANGED <<envVars, fetching>>

\* ------------------------------------------------------------------ tag actions
\* the optimistic set() of addTag
SetAddTag(st, newTag) == [st EXCEPT !.tags = Append(@, newTag)]

NewTag(name, id) == [id |-> id, name |-> name]

\* addTag(name, color)
addTag(name) ==
    /\ IF demo THEN NoOp
       ELSE /\ nextId' = nextId + 1
            /\ LET id == generateId(nextId + 1)
               IN /\ Put(SetAddTag(Store, NewTag(name, id)))
                  /\ Await([op |-> "addTag", id |-> id, prev |-> << >>])
            /\ UNCHANGED clock
    /\ UNCHANGED <<envVars, fetching>>

\* the optimistic set() of updateTag
SetUpdateTag(st, id, updates) ==
    [st EXCEPT !.tags = Map(@, LAMBDA t :
        IF t.id = id THEN Spread(t, updates) ELSE t)]

\* updateTag(id, updates)
updateTag(id, updates) ==
    /\ IF demo THEN NoOp
       ELSE LET previousTag == Find(tags, LAMBDA t : t.id = id)
            IN /\ Put(SetUpdateTag(Store, id, updates))
               /\ Await([op |-> "updateTag", id |-> id, prev |-> previousTag])
               /\ UNCHANGED <<nextId, clock>>
    /\ UNCHANGED <<envVars, fetching>>

\* a delete that clears the tags of the bookmarks that carried the tag
SetDeleteTagClearing(st, id) ==
    [st EXCEPT
        !.tags = SelectSeq(@, LAMBDA t : t.id # id),
        !.bookmarks = Map(@, LAMBDA b :
            IF id \in Range(b.tags) THEN Spread(b, [tags |-> << >>]) ELSE b)]

\* the set() of deleteTag and of deleteTagFromRemote
SetDeleteTag(st, id) ==
    [st EXCEPT
        !.tags = SelectSeq(@, LAMBDA t : t.id # id),
        !.bookmarks = Map(@, LAMBDA b :
            Spread(b, [tags |-> SelectSeq(b.tags, LAMBDA t : t # id)]))]

\* deleteTag(id)
deleteTag(id) ==
    /\ IF demo THEN NoOp
       ELSE LET deletedTag == Find(tags, LAMBDA t : t.id = id)
            IN /\ Put(SetDeleteTag(Store, id))
               /\ Await([op |-> "deleteTag", id |-> id, prev |-> deletedTag])
               /\ UNCHANGED <<nextId, clock>>
    /\ UNCHANGED <<envVars, fetching>>

\* ------------------------------------------------------------------ remote writes
\* the error branch of each action's continuation: the revert it runs on the
\* current state st with the snapshot of write w
Revert(st, w) ==
    CASE w.op = "addBookmark" ->
            [st EXCEPT !.bookmarks = SelectSeq(@, LAMBDA b : b.id # w.id)]
      [] w.op = "updateBookmark" ->
            IF w.prev # << >>
            THEN [st EXCEPT !.bookmarks =
                     Map(@, LAMBDA b : IF b.id = w.id THEN w.prev[1] ELSE b)]
            ELSE st
      [] w.op = "deleteBookmark" ->
            IF w.prev # << >>
            THEN [st EXCEPT !.bookmarks = Append(@, w.prev[1])]
            ELSE st
      [] w.op = "emptyTrash" ->
            [st EXCEPT !.bookmarks = @ \o w.prev]
      [] w.op = "addCollection" ->
            [st EXCEPT !.collections = SelectSeq(@, LAMBDA c : c.id # w.id)]
      [] w.op = "updateCollection" ->
            IF w.prev # << >>
            THEN [st EXCEPT !.collections =
                     Map(@, LAMBDA c : IF c.id = w.id THEN w.prev[1] ELSE c)]
            ELSE st
      [] w.op = "deleteCollection" ->
            IF w.prev # << >>
            THEN [st EXCEPT !.collections = Append(@, w.prev[1])]
            ELSE st
      [] w.op = "addTag" ->
            [st EXCEPT !.tags = SelectSeq(@, LAMBDA t : t.id # w.id)]
      [] w.op = "updateTag" ->
            IF w.prev # << >>
            THEN [st EXCEPT !.tags =
                     Map(@, LAMBDA t : IF t.id = w.id THEN w.prev[1] ELSE t)]
            ELSE st
      [] w.op = "deleteTag" ->
            IF w.prev # << >>
            THEN [st EXCEPT !.tags = Append(@, w.prev[1])]
            ELSE st

\* a continuation that takes the rollback branch whatever the backend answered
AfterWriteReverting(st, w, error) == Revert(st, w)

\* `const { error } = await supabase...; if (error) { revert }`
AfterWrite(st, w, error) == IF error THEN Revert(st, w) ELSE st

RemoveAt(s, i) == SubSeq(s, 1, i - 1) \o SubSeq(s, i + 1, Len(s))

Settle(i, error) ==
    /\ Put(AfterWrite(Store, pending[i], error))
    /\ pending' = RemoveAt(pending, i)
    /\ UNCHANGED <<envVars, fetching, nextId, clock>>

\* the backend answers a write without error (it cannot while offline)
ConfirmWrite(i) ==
    /\ online
    /\ Settle(i, FALSE)

\* the backend, or the network, answers a write with an error
FailWrite(i) == Settle(i, TRUE)

\* ------------------------------------------------------------------ realtime merge
\* rows another device wrote
RemoteBookmark ==
    [id |-> RemoteBookmarkId, url |-> UrlA, collectionId |-> "unsorted",
     tags |-> << >>, isFavorite |-> FALSE, isTrashed |-> FALSE, isArchived |-> FALSE,
     isPinned |-> FALSE, createdAt |-> 1, updatedAt |-> 1]

RemoteCollection == [id |-> RemoteCollectionId, name |-> "n1", isSystem |-> FALSE]

RemoteTag == [id |-> RemoteTagId, name |-> "n1"]

\* the change feed is delivered to a device with a session, over the network
Subscribed == Backend /\ online

FromRemote ==
    /\ Subscribed
    /\ UNCHANGED <<envVars, fetching, nextId, clock, pending>>

\* an insert that never looks for the id
addBookmarkFromRemoteAppending(bookmark) ==
    /\ bookmarks' = Append(bookmarks, bookmark)
    /\ UNCHANGED <<collections, tags>>
    /\ FromRemote

addBookmarkFromRemote(bookmark) ==
    /\ bookmarks' = IF Some(bookmarks, LAMBDA b : b.id = bookmark.id)
                    THEN bookmarks ELSE Append(bookmarks, bookmark)
    /\ UNCHANGED <<collections, tags>>
    /\ FromRemote

updateBookmarkFromRemote(id, bookmark) ==
    /\ bookmarks' = Map(bookmarks, LAMBDA b : IF b.id = id THEN bookmark ELSE b)
    /\ UNCHANGED <<collections, tags>>
    /\ FromRemote

deleteBookmarkFromRemote(id) ==
    /\ bookmarks' = SelectSeq(bookmarks, LAMBDA b : b.id # id)
    /\ UNCHANGED <<collections, tags>>
    /\ FromRemote

addCollectionFromRemote(collection) ==
    /\ collections' = IF Some(collections, LAMBDA c : c.id = collection.id)
                      THEN collections ELSE Append(collections, collection)
    /\ UNCHANGED <<bookmarks, tags>>
    /\ FromRemote

updateCollectionFromRemote(id, collection) ==
    /\ collections' = Map(collections, LAMBDA c : IF c.id = id THEN collection ELSE c)
    /\ UNCHANGED <<bookmarks, tags>>
    /\ FromRemote

deleteCollectionFromRemote(id) ==
    /\ Put(SetDeleteCollection(Store, id))
    /\ FromRemote

addTagFromRemote(tag) ==
    /\ tags' = IF Some(tags, LAMBDA t : t.id = tag.id) THEN tags ELSE Append(tags, tag)
    /\ UNCHANGED <<bookmarks, collections>>
    /\ FromRemote

updateTagFromRemote(id, tag) ==
    /\ tags' = Map(tags, LAMBDA t : IF t.id = id THEN tag ELSE t)
    /\ UNCHANGED <<bookmarks, collections>>
    /\ FromRemote

deleteTagFromRemote(id) ==
    /\ Put(SetDeleteTag(Store, id))
    /\ FromRemote

\* the rows a realtime event can carry: a row of another device, or the
\* backend's copy of a row this device holds
BookmarkRows == {RemoteBookmark} \cup
    {Spread(bookmarks[i], [isFavorite |-> TRUE]) : i \in DOMAIN bookmarks}

CollectionRows == {RemoteCollection} \cup
    {Spread(collections[i], [name |-> "n2"]) :
        i \in {j \in DOMAIN collections : ~collections[j].isSystem}}

TagRows == {RemoteTag} \cup {Spread(tags[i], [name |-> "n2"]) : i \in DOMAIN tags}

\* ------------------------------------------------------------------ full refetch
\* a collections row flagged is_system, as a backend seeded by hand can hold
SystemRow == [id |-> "unsorted", name |-> "Unsorted", isSystem |-> TRUE]

\* what the three selects can return
FetchResults ==
    { [bookmarks |-> << >>, collections |-> << >>, tags |-> << >>],
      [bookmarks |-> << RemoteBookmark >>,
       collections |-> << RemoteCollection >>,
       tags |-> << >>],
      [bookmarks |-> << RemoteBookmark >>,
       collections |-> << SystemRow, RemoteCollection >>,
       tags |-> << RemoteTag >>] }

\* fetchFromSupabase(), up to the await of the three selects
fetchFromSupabase ==
    /\ IF demo \/ ~Backend
       THEN UNCHANGED <<isSyncing, fetching>>
       ELSE /\ ~fetching
            /\ isSyncing' = TRUE
            /\ fetching' = TRUE
    /\ UNCHANGED <<storeVars, user, demo, configured, online, nextId, clock, pending>>

\* a merge that takes the system collections from the fetched rows
MergedCollectionsFromRows(userCollections) == userCollections

\* the merge of the system collections with the fetched rows
MergedCollections(userCollections) ==
    SelectSeq(defaultCollections, LAMBDA c : c.isSystem)
        \o SelectSeq(userCollections, LAMBDA c : ~c.isSystem)

\* fetchFromSupabase(), after the selects resolved without error
FetchDone(res) ==
    /\ fetching
    /\ online
    /\ bookmarks' = res.bookmarks
    /\ collections' = MergedCollections(res.collections)
    /\ tags' = res.tags
    /\ isSyncing' = FALSE
    /\ fetching' = FALSE
    /\ UNCHANGED <<user, demo, configured, online, nextId, clock, pending>>

\* fetchFromSupabase(), after a select resolved with an error
FetchFailed ==
    /\ fetching
    /\ isSyncing' = FALSE
    /\ fetching' = FALSE
    /\ UNCHANGED <<storeVars, user, demo, configured, online, nextId, clock, pending>>

\* ------------------------------------------------------------------ demo mode
\* what parseBookmarkHtml returns for the bundled demo file: records with a url
\* and the folder path (a list of folder names, << >> at the root)
DemoParsed ==
    << [url |-> <<"http://", "a">>, folder |-> <<"Work", "Docs">>],
       [url |-> <<"http://", "A", "/">>, folder |-> << >>] >>

\* b.folder.split('/').pop() || ''
Leaf(folder) == IF folder = << >> THEN "" ELSE folder[Len(folder)]

\* the distinct leaf folder names in order of first appearance
RECURSIVE LeafNames(_, _)
LeafNames(parsed, seen) ==
    IF parsed = << >> THEN seen
    ELSE LET name == Leaf(Head(parsed).folder)
         IN LeafNames(Tail(parsed),
                      IF name # "" /\ name \notin Range(seen)
                      THEN Append(seen, name) ELSE seen)

IndexOf(s, x) == CHOOSE i \in DOMAIN s : s[i] = x

\* initializeDemoMode(), called once when the App mounts
initializeDemoMode ==
    /\ nextId = 0
    /\ IF ~demo THEN UNCHANGED <<storeVars, nextId, clock>>
       ELSE LET names == LeafNames(DemoParsed, << >>)
                k == Len(names)
            IN /\ collections' = defaultCollections \o
                      [i \in 1..k |-> [id |-> generateId(nextId + i),
                                       name |-> names[i], isSystem |-> FALSE]]
               /\ tags' = << >>
               /\ bookmarks' =
                      [i \in 1..Len(DemoParsed) |->
                          LET folderName == Leaf(DemoParsed[i].folder)
                          IN [id |-> generateId(nextId + k + i),
                              url |-> DemoParsed[i].url,
                              collectionId |->
                                  IF folderName # ""
                                  THEN generateId(nextId + IndexOf(names, folderName))
                                  ELSE "unsorted",
                              tags |-> << >>, isFavorite |-> FALSE,
                              isArchived |-> FALSE, isTrashed |-> FALSE,
                              isPinned |-> FALSE,
                              createdAt |-> clock + 1, updatedAt |-> clock + 1]]
               /\ nextId' = nextId + k + Len(DemoParsed)
               /\ UNCHANGED clock
    /\ UNCHANGED <<envVars, fetching, pending>>

\* ------------------------------------------------------------------ environment
\* setUser(session.user) / setUser(null) from the auth hook
setUser(u) ==
    /\ configured
    /\ user # u
    /\ user' = u
    /\ UNCHANGED <<storeVars, isSyncing, demo, configured, online, nextId, clock,
                   pending, fetching>>

\* the browser's online / offline events
Connectivity ==
    /\ online' = ~online
    /\ UNCHANGED <<storeVars, user, isSyncing, demo, configured, nextId, clock,
                   pending, fetching>>

\* ------------------------------------------------------------------ observers
NoPre == << >>

\* the number of bookmarks a cascade of deleteCollection / deleteTag touches
Members(bs, id) == Cardinality({i \in DOMAIN bs : bs[i].collectionId = id})

Tagged(bs, id) == Cardinality({i \in DOMAIN bs : id \in Range(bs[i].tags)})

\* record the action that runs in this step and the store it started from
Observe(op, id, n) ==
    /\ last' = [op |-> op, id |-> id, n |-> n]
    /\ pre' = Store
    /\ UNCHANGED <<imp, local, hook, call, stored, net>>

\* a rollback keeps the store its action started from when the action was the
\* step before it, so that nothing ran in between
ObserveSettle(op, i) ==
    /\ last' = [op |-> op, id |-> pending[i].op, n |-> 0]
    /\ pre' = IF op = "rollback" /\ i = Len(pending) /\ last.op = pending[i].op
              THEN pre ELSE NoPre
    /\ UNCHANGED <<imp, local, hook, call, stored, net>>

\* the step stays within the run's budget of ids and timestamps
Within == nextId' <= MaxIds /\ clock' <= MaxClock

\* ------------------------------------------------------------------ the store with its backend
Init ==
    /\ bookmarks = << >>
    /\ collections = defaultCollections
    /\ tags = defaultTags
    /\ user = "none"
    /\ isSyncing = FALSE
    /\ demo = FALSE
    /\ configured \in BOOLEAN
    /\ online = TRUE
    /\ nextId = 0
    /\ clock = 0
    /\ pending = << >>
    /\ fetching = FALSE
    /\ imp = << >>
    /\ local = << >>
    /\ last = [op |-> "init", id |-> "", n |-> 0]
    /\ pre = NoPre
    /\ hook = NoHook
    /\ stored = NoBlob
    /\ net = NoNet
    /\ call = NoCall

\* the edits of the bookmark dialog: another collection, another tag selection
BookmarkUpdates ==
    {[collectionId |-> c] : c \in CollectionChoices}
        \cup {[tags |-> ts] : ts \in TagChoices}

Next ==
    \/ \E c \in CollectionChoices, ts \in TagChoices :
          addBookmark(UrlA, c, ts, FALSE) /\ Observe("addBookmark", "", 0) /\ Within
    \/ \E id \in Targets(bookmarks), up \in BookmarkUpdates :
          updateBookmark(id, up) /\ Observe("updateBookmark", id, 0) /\ Within
    \/ \E id \in Targets(bookmarks) :
          deleteBookmark(id) /\ Observe("deleteBookmark", id, 0)
    \/ \E id \in Targets(bookmarks) :
          toggleFavorite(id) /\ Observe("toggleFavorite", id, 0) /\ Within
    \/ \E id \in Targets(bookmarks) :
          toggleArchive(id) /\ Observe("toggleArchive", id, 0) /\ Within
    \/ \E id \in Targets(bookmarks) :
          togglePin(id) /\ Observe("togglePin", id, 0) /\ Within
    \/ \E id \in Targets(bookmarks) :
          moveToTrash(id) /\ Observe("moveToTrash", id, 0) /\ Within
    \/ \E id \in Targets(bookmarks) :
          restoreFromTrash(id) /\ Observe("restoreFromTrash", id, 0) /\ Within
    \/ \E id \in Targets(bookmarks) :
          permanentlyDelete(id) /\ Observe("permanentlyDelete", id, 0)
    \/ emptyTrash /\ Observe("emptyTrash", "", 0)
    \/ \E n \in Names : addCollection(n) /\ Observe("addCollection", "", 0) /\ Within
    \/ \E id \in Targets(collections), n \in Names :
          updateCollection(id, [name |-> n]) /\ Observe("updateCollection", id, 0)
    \/ \E id \in Targets(collections) :
          deleteCollection(id)
              /\ Observe("deleteCollection", id, Members(bookmarks, id))
    \/ \E n \in Names : addTag(n) /\ Observe("addTag", "", 0) /\ Within
    \/ \E id \in Targets(tags), n \in Names :
          updateTag(id, [name |-> n]) /\ Observe("updateTag", id, 0)
    \/ \E id \in Targets(tags) :
          deleteTag(id) /\ Observe("deleteTag", id, Tagged(bookmarks, id))
    \/ \E i \in DOMAIN pending : ConfirmWrite(i) /\ ObserveSettle("confirm", i)
    \/ \E i \in DOMAIN pending : FailWrite(i) /\ ObserveSettle("rollback", i)
    \/ \E u \in {"none", "u1"} : setUser(u) /\ Observe("setUser", "", 0)
    \/ Connectivity /\ Observe("connectivity", "", 0)

Spec == Init /\ [][Next]_vars

\* ------------------------------------------------------------------ claims on the store with its backend
\* the actions that take the id of a record
TargetedOps ==
    {"updateBookmark", "deleteBookmark", "toggleFavorite", "toggleArchive",
     "togglePin", "moveToTrash", "restoreFromTrash", "permanentlyDelete",
     "updateCollection", "deleteCollection", "updateTag", "deleteTag"}

\* C1: when the remote write of a mutating action fails and nothing ran in
\* between, the rollback leaves bookmarks, collections and tags exactly as they
\* were before the action (same records, same fields, same order).
C1_RollbackRestoresState ==
    (last.op = "rollback" /\ pre # NoPre) => Store = pre

\* C3: the collections list always holds both system collections, "all" and
\* "unsorted", with their original fields.
C3_SystemCollectionsKept ==
    \A i \in DOMAIN defaultCollections : defaultCollections[i] \in Range(collections)

\* C8: while the device is offline no store action issues a remote call, and
\* the mutation an action applied while offline is not rolled back before
\* connectivity returns.
C8_OfflineIsLocal ==
    [][ ~online =>
          /\ Len(pending') <= Len(pending)
          /\ ~(last'.op = "rollback" /\ pre' # NoPre) ]_vars

\* C9: an action aimed at an id that is not in the store changes neither
\* bookmarks, collections nor tags and issues no remote write.
C9_UnknownIdIsNoOp ==
    (last.op \in TargetedOps /\ last.id = MissingId) =>
        /\ Store = pre
        /\ \A j \in DOMAIN pending : pending[j].id # MissingId

\* ------------------------------------------------------------------ a rehydrated store and the delete cascades
\* the persist middleware rehydrates bookmarks, collections and tags that an
\* earlier session saved: two folders, two tags and two bookmarks filed and
\* tagged in every way
SavedBookmark(id, collectionId, tagIds) ==
    [id |-> id, url |-> UrlA, collectionId |-> collectionId, tags |-> tagIds,
     isFavorite |-> FALSE, isTrashed |-> FALSE, isArchived |-> FALSE,
     isPinned |-> FALSE, createdAt |-> 0, updatedAt |-> 0]

SavedCollections ==
    defaultCollections \o <<[id |-> "c1", name |-> "n1", isSystem |-> FALSE],
                            [id |-> "c2", name |-> "n2", isSystem |-> FALSE]>>

SavedTags == <<[id |-> "t1", name |-> "n1"], [id |-> "t2", name |-> "n2"]>>

SavedFilings == {"unsorted", "c1", "c2"}

SavedTaggings == {<< >>, <<"t1">>, <<"t1", "t2">>}

Hydrated ==
    /\ \E c1 \in SavedFilings, c2 \in SavedFilings,
          ts1 \in SavedTaggings, ts2 \in SavedTaggings :
          bookmarks = <<SavedBookmark("b1", c1, ts1), SavedBookmark("b2", c2, ts2)>>
    /\ collections = SavedCollections
    /\ tags = SavedTags
    /\ isSyncing = FALSE
    /\ online = TRUE
    /\ nextId = 0
    /\ clock = 0
    /\ pending = << >>
    /\ fetching = FALSE
    /\ imp = << >>
    /\ last = [op |-> "init", id |-> "", n |-> 0]
    /\ pre = NoPre
    /\ hook = NoHook
    /\ stored = NoBlob
    /\ net = NoNet
    /\ call = NoCall

InitCascade ==
    /\ Hydrated
    /\ local = << >>
    /\ demo = FALSE
    /\ configured \in BOOLEAN
    /\ user \in {"none", "u1"}

NextCascade ==
    \/ \E id \in Targets(collections) :
          deleteCollection(id)
              /\ Observe("deleteCollection", id, Members(bookmarks, id))
    \/ \E id \in Targets(collections) :
          deleteCollectionFromRemote(id)
              /\ Observe("deleteCollectionFromRemote", id, Members(bookmarks, id))
    \/ \E id \in Targets(tags) :
          deleteTag(id) /\ Observe("deleteTag", id, Tagged(bookmarks, id))
    \/ \E id \in Targets(tags) :
          deleteTagFromRemote(id)
              /\ Observe("deleteTagFromRemote", id, Tagged(bookmarks, id))
    \/ \E i \in DOMAIN pending : ConfirmWrite(i) /\ ObserveSettle("confirm", i)
    \/ \E i \in DOMAIN pending : FailWrite(i) /\ ObserveSettle("rollback", i)
    \/ \E u \in {"none", "u1"} : setUser(u) /\ Observe("setUser", "", 0)
    \/ Connectivity /\ Observe("connectivity", "", 0)

SpecCascade == InitCascade /\ [][NextCascade]_vars

\* the ids of the collections of a list that are not system collections
UserCollectionIds(cs) == Ids(SelectSeq(cs, LAMBDA c : ~c.isSystem))

InitDemo ==
    /\ bookmarks = << >>
    /\ collections = defaultCollections
    /\ tags = defaultTags
    /\ user = "none"
    /\ isSyncing = FALSE
    /\ demo = TRUE
    /\ configured \in BOOLEAN
    /\ online = TRUE
    /\ nextId = 0
    /\ clock = 0
    /\ pending = << >>
    /\ fetching = FALSE
    /\ imp = << >>
    /\ local = << >>
    /\ last = [op |-> "init", id |-> "", n |-> 0]
    /\ pre = NoPre
    /\ hook = NoHook
    /\ stored = NoBlob
    /\ net = NoNet
    /\ call = NoCall

\* the ids initializeDemoMode takes, and the budget of the actions after it
DemoIds == Len(LeafNames(DemoParsed, << >>)) + Len(DemoParsed)

WithinDemo == nextId' <= DemoIds + MaxIds /\ clock' <= MaxClock

NextDemo ==
    \/ initializeDemoMode /\ Observe("initializeDemoMode", "", 0)
    \/ fetchFromSupabase /\ Observe("fetchFromSupabase", "", 0)
    \/ \E c \in CollectionChoices, ts \in TagChoices :
          addBookmark(UrlA, c, ts, FALSE) /\ Observe("addBookmark", "", 0) /\ WithinDemo
    \/ \E id \in Targets(bookmarks), up \in BookmarkUpdates :
          updateBookmark(id, up) /\ Observe("updateBookmark", id, 0) /\ WithinDemo
    \/ \E id \in Targets(bookmarks) :
          deleteBookmark(id) /\ Observe("deleteBookmark", id, 0)
    \/ \E id \in Targets(bookmarks) :
          toggleFavorite(id) /\ Observe("toggleFavorite", id, 0) /\ WithinDemo
    \/ \E id \in Targets(bookmarks) :
          toggleArchive(id) /\ Observe("toggleArchive", id, 0) /\ WithinDemo
    \/ \E id \in Targets(bookmarks) :
          togglePin(id) /\ Observe("togglePin", id, 0) /\ WithinDemo
    \/ \E id \in Targets(bookmarks) :
          moveToTrash(id) /\ Observe("moveToTrash", id, 0) /\ WithinDemo
    \/ \E id \in Targets(bookmarks) :
          restoreFromTrash(id) /\ Observe("restoreFromTrash", id, 0) /\ WithinDemo
    \/ \E id \in Targets(bookmarks) :
          permanentlyDelete(id) /\ Observe("permanentlyDelete", id, 0)
    \/ emptyTrash /\ Observe("emptyTrash", "", 0)
    \/ \E n \in Names : addCollection(n) /\ Observe("addCollection", "", 0) /\ WithinDemo
    \/ \E id \in Targets(collections), n \in Names :
          updateCollection(id, [name |-> n]) /\ Observe("updateCollection", id, 0)
    \/ \E id \in Targets(collections) :
          deleteCollection(id)
              /\ Observe("deleteCollection", id, Members(bookmarks, id))
    \/ \E n \in Names : addTag(n) /\ Observe("addTag", "", 0) /\ WithinDemo
    \/ \E id \in Targets(tags), n \in Names :
          updateTag(id, [name |-> n]) /\ Observe("updateTag", id, 0)
    \/ \E id \in Targets(tags) :
          deleteTag(id) /\ Observe("deleteTag", id, Tagged(bookmarks, id))
    \/ \E u \in {"none", "u1"} : setUser(u) /\ Observe("setUser", "", 0)
    \/ Connectivity /\ Observe("connectivity", "", 0)

SpecDemo == InitDemo /\ [][NextDemo]_vars

\* the mutating actions of the store
MutatingOps ==
    TargetedOps \cup
        {"addBookmark", "emptyTrash", "addCollection", "addTag", "fetchFromSupabase"}

\* C7: in demo mode every mutating store action, and fetchFromSupabase, leaves
\* bookmarks, collections and tags as they were and issues no remote write or
\* select.
C7_DemoModeIsReadOnly ==
    (demo /\ last.op \in MutatingOps) =>
        /\ Store = pre
        /\ pending = << >>
        /\ ~fetching
        /\ ~isSyncing

\* deleteCollection of a demo folder that holds a bookmark, called with a
\* session that would otherwise send the delete to the backend
C7_Witness ==
    /\ demo
    /\ Backend
    /\ last.op = "deleteCollection"
    /\ last.id \in UserCollectionIds(collections)
    /\ last.n > 0

\* ------------------------------------------------------------------ confirmed writes against a store with no backend
\* a session is active and the device is online from the start; next to the
\* store runs a second one that has no backend configured
InitConfirmed ==
    /\ bookmarks = <<SavedBookmark("b1", "c1", <<"t1">>)>>
    /\ collections = SubSeq(SavedCollections, 1, 3)
    /\ tags = SubSeq(SavedTags, 1, 1)
    /\ isSyncing = FALSE
    /\ online = TRUE
    /\ nextId = 0
    /\ clock = 0
    /\ pending = << >>
    /\ fetching = FALSE
    /\ imp = << >>
    /\ last = [op |-> "init", id |-> "", n |-> 0]
    /\ pre = NoPre
    /\ hook = NoHook
    /\ stored = NoBlob
    /\ net = NoNet
    /\ call = NoCall
    /\ demo = FALSE
    /\ configured = TRUE
    /\ user = "u1"
    /\ local = Store

\* the second store is given the call that the store is given in this step:
\* with no backend an action is its set() alone
Mirror(st) ==
    /\ local' = st
    /\ UNCHANGED <<imp, last, pre, hook, call, stored, net>>

\* updateBookmark as toggleFavorite / toggleArchive / togglePin call it
LocalToggle(st, field, id, now) ==
    LET updates == Flip(st, field, id)
    IN IF updates # << >> THEN SetUpdateBookmark(st, id, updates[1], now) ELSE st

\* emptyTrash returns before its set() when the trash is empty
LocalEmptyTrash(st) ==
    IF SelectSeq(st.bookmarks, LAMBDA b : b.isTrashed) = << >>
    THEN st ELSE SetEmptyTrash(st)

NextConfirmed ==
    \/ \E c \in CollectionChoices, ts \in TagChoices :
          /\ addBookmark(UrlA, c, ts, FALSE)
          /\ Mirror(SetAddBookmark(local,
                 NewBookmark(UrlA, c, ts, FALSE, generateId(nextId + 1), clock + 1)))
          /\ Within
    \/ \E id \in Targets(bookmarks), up \in BookmarkUpdates :
          /\ updateBookmark(id, up)
          /\ Mirror(SetUpdateBookmark(local, id, up, clock + 1))
          /\ Within
    \/ \E id \in Targets(bookmarks) :
          deleteBookmark(id) /\ Mirror(SetDeleteBookmark(local, id))
    \/ \E id \in Targets(bookmarks) :
          /\ toggleFavorite(id)
          /\ Mirror(LocalToggle(local, "isFavorite", id, clock + 1))
          /\ Within
    \/ \E id \in Targets(bookmarks) :
          /\ toggleArchive(id)
          /\ Mirror(LocalToggle(local, "isArchived", id, clock + 1))
          /\ Within
    \/ \E id \in Targets(bookmarks) :
          /\ togglePin(id)
          /\ Mirror(LocalToggle(local, "isPinned", id, clock + 1))
          /\ Within
    \/ \E id \in Targets(bookmarks) :
          /\ moveToTrash(id)
          /\ Mirror(SetUpdateBookmark(local, id, [isTrashed |-> TRUE], clock + 1))
          /\ Within
    \/ \E id \in Targets(bookmarks) :
          /\ restoreFromTrash(id)
          /\ Mirror(SetUpdateBookmark(local, id, [isTrashed |-> FALSE], clock + 1))
          /\ Within
    \/ \E id \in Targets(bookmarks) :
          permanentlyDelete(id) /\ Mirror(SetDeleteBookmark(local, id))
    \/ emptyTrash /\ Mirror(LocalEmptyTrash(local))
    \/ \E n \in Names :
          /\ addCollection(n)
          /\ Mirror(SetAddCollection(local, NewCollection(n, generateId(nextId + 1))))
          /\ Within
    \/ \E id \in Targets(collections), n \in Names :
          /\ updateCollection(id, [name |-> n])
          /\ Mirror(SetUpdateCollection(local, id, [name |-> n]))
    \/ \E id \in Targets(collections) :
          deleteCollection(id) /\ Mirror(SetDeleteCollection(local, id))
    \/ \E n \in Names :
          /\ addTag(n)
          /\ Mirror(SetAddTag(local, NewTag(n, generateId(nextId + 1))))
          /\ Within
    \/ \E id \in Targets(tags), n \in Names :
          updateTag(id, [name |-> n]) /\ Mirror(SetUpdateTag(local, id, [name |-> n]))
    \/ \E id \in Targets(tags) :
          deleteTag(id) /\ Mirror(SetDeleteTag(local, id))
    \/ \E i \in DOMAIN pending : ConfirmWrite(i) /\ UNCHANGED <<imp, local, last, pre, hook, call, stored, net>>

SpecConfirmed == InitConfirmed /\ [][NextConfirmed]_vars

\* C2: once the backend has confirmed every remote write of a sequence of
\* mutating actions, bookmarks, collections and tags equal those of a store
\* with no backend that was given the same calls, ids and timestamps.
C2_ConfirmedEqualsLocalOnly ==
    pending = << >> => Store = local

\* every write confirmed after a timestamped edit, a generated record and a
\* delete that shortened the collections
C2_Witness ==
    /\ pending = << >>
    /\ clock > 0
    /\ nextId > 0
    /\ Len(collections) < 3

\* ------------------------------------------------------------------ normalizeUrl
\* a URL string is a sequence of tokens: the scheme with its "//", a host in
\* either letter case, then "/" and path letters, then a query token
Hosts == {"a", "A", "b"}

QueryTokens == {"?q"}

toLowerCase(token) ==
    CASE token = "A" -> "a"
      [] token = "P" -> "p"
      [] token = "Docs" -> "docs"
      [] token = "Work" -> "work"
      [] token = "Personal" -> "personal"
      [] token = "All Bookmarks" -> "all bookmarks"
      [] token = "Unsorted" -> "unsorted"
      [] OTHER -> token

\* new URL(url) succeeds on a scheme followed by a host
Parseable(url) == Len(url) >= 2 /\ url[1] = "http://" /\ url[2] \in Hosts

\* parsed.search: the query token when the string ends with one
Search(url) ==
    IF url[Len(url)] \in QueryTokens THEN <<url[Len(url)]>> ELSE << >>

\* parsed.pathname: what lies between the host and the query, "/" when empty
Pathname(url) ==
    LET rest == SubSeq(url, 3, Len(url) - Len(Search(url)))
    IN IF rest = << >> THEN <<"/">> ELSE rest

\* pathname.replace(/\/$/, '') || '/'
StripTrailingSlash(pathname) ==
    LET stripped == IF pathname[Len(pathname)] = "/"
                    THEN SubSeq(pathname, 1, Len(pathname) - 1) ELSE pathname
    IN IF stripped = << >> THEN <<"/">> ELSE stripped

normalizeUrl(url) ==
    IF Parseable(url)
    THEN <<url[1], toLowerCase(url[2])>> \o StripTrailingSlash(Pathname(url))
             \o Search(url)
    ELSE [i \in DOMAIN url |-> toLowerCase(url[i])]

\* ------------------------------------------------------------------ the import dialog
batchSize == 10

\* what parseBookmarkHtml can hand to the dialog: records with a url and the
\* folder path as a list of names (<< >> at the root)
\* a file of two records more than a batch holds: two folders in the first
\* batch, a record whose url normalizes to that of a saved bookmark, and in
\* the second batch a folder whose leaf name differs from the first one by
\* letter case only
LongFile ==
    [n \in 1..(batchSize + 2) |->
        [url |-> IF n = 3 THEN <<"http://", "A", "/">> ELSE <<"http://", "b">>,
         folder |-> CASE n = 1 -> <<"Docs">>
                      [] n = 2 -> <<"Personal">>
                      [] n = batchSize + 2 -> <<"Work", "docs">>
                      [] OTHER -> << >>]]

ParsedFiles ==
    { << [url |-> <<"http://", "a">>, folder |-> << >>],
         [url |-> <<"http://", "A", "/">>, folder |-> <<"Docs">>] >>,
      << [url |-> <<"http://", "b">>, folder |-> <<"Work", "Docs">>],
         [url |-> <<"http://", "a", "/", "p">>, folder |-> <<"docs">>],
         [url |-> <<"http://", "a">>, folder |-> <<"Unsorted">>] >> }

\* new Set(bookmarks.map(b => normalizeUrl(b.url)))
existingUrls(bs) == {normalizeUrl(bs[i].url) : i \in DOMAIN bs}

\* parsedBookmarks.filter(b => existingUrls.has(normalizeUrl(b.url))).length
duplicateCount(parsed, bs) ==
    Len(SelectSeq(parsed, LAMBDA b : normalizeUrl(b.url) \in existingUrls(bs)))

NoStats == [total |-> 0, imported |-> 0, skipped |-> 0, errors |-> 0]

\* the dialog as it opens: its React state, and no handleImport running
DialogOpened ==
    [step |-> "select", parsedBookmarks |-> << >>, skipDuplicates |-> TRUE,
     importProgress |-> 0, stats |-> NoStats,
     pc |-> "idle", toImport |-> << >>, duplicateCount |-> 0, folderMap |-> << >>,
     i |-> 0, k |-> 0, imported |-> 0, errors |-> 0, awaiting |-> "",
     before |-> << >>, created |-> << >>, attempted |-> << >>]

\* a map that forgets what it is given
MapSetIgnoring(m, key, value) == m

\* folderMap.set(key, value)
MapSet(m, key, value) ==
    [x \in DOMAIN m \cup {key} |-> IF x = key THEN value ELSE m[x]]

\* collections.forEach(c => folderMap.set(c.name.toLowerCase(), c.id))
RECURSIVE SeedFolderMap(_, _)
SeedFolderMap(cs, m) ==
    IF cs = << >> THEN m
    ELSE SeedFolderMap(Tail(cs), MapSet(m, toLowerCase(Head(cs).name), Head(cs).id))

\* toImport.slice(i, i + batchSize)
Batch(toImport, i) ==
    SubSeq(toImport, i + 1, IF i + batchSize < Len(toImport)
                            THEN i + batchSize ELSE Len(toImport))

\* Math.round(x / y * 100) for naturals x and y > 0
RoundPercent(x, y) == (200 * x + y) \div (2 * y)

\* the part of a step that the dialog leaves alone
ImportFrame == UNCHANGED <<envVars, fetching, local>>

\* a write with this id is awaited by a store action
InFlight(id) == \E j \in DOMAIN pending : pending[j].id = id

\* handleFileSelect: the file is read and parsed
handleFileSelect(file) ==
    /\ imp.step = "select"
    /\ imp' = [imp EXCEPT !.parsedBookmarks = file, !.step = "preview"]
    /\ UNCHANGED <<storeVars, nextId, clock, pending>>
    /\ ImportFrame

\* the checkbox of the preview step
setSkipDuplicates(checked) ==
    /\ imp.step = "preview"
    /\ imp.skipDuplicates # checked
    /\ imp' = [imp EXCEPT !.skipDuplicates = checked]
    /\ UNCHANGED <<storeVars, nextId, clock, pending>>
    /\ ImportFrame

\* handleImport, up to the first batch: the working set, the counters and the
\* folder map are built from the bookmarks and collections of this render
handleImport ==
    /\ imp.step = "preview"
    /\ imp' = [imp EXCEPT
          !.step = "importing",
          !.toImport =
              IF imp.skipDuplicates
              THEN SelectSeq(imp.parsedBookmarks, LAMBDA b :
                       normalizeUrl(b.url) \notin existingUrls(bookmarks))
              ELSE imp.parsedBookmarks,
          !.duplicateCount = duplicateCount(imp.parsedBookmarks, bookmarks),
          !.folderMap = SeedFolderMap(collections, << >>),
          !.i = 0, !.k = 1, !.imported = 0, !.errors = 0, !.pc = "folders",
          \* observers: the store of this render, and the calls of the run
          !.before = Store, !.created = << >>, !.attempted = << >>]
    /\ UNCHANGED <<storeVars, nextId, clock, pending>>
    /\ ImportFrame

\* the loop counters after the k-th record of a batch: past the last record
\* the folder loop hands over to the bookmark loop, and the bookmark loop to
\* setImportProgress and the pause between batches
Advance(im) ==
    LET n == Len(Batch(im.toImport, im.i))
    IN IF im.k <= n THEN im
       ELSE IF im.pc = "folders"
            THEN [im EXCEPT !.pc = "bookmarks", !.k = 1]
            ELSE [im EXCEPT !.pc = "pause",
                            !.importProgress = RoundPercent(im.i + n, Len(im.toImport))]

\* an awaited store action hands control back to the event loop only when it
\* awaits the backend
AwaitsBackend == Backend /\ ~demo

\* the folder loop of a batch, one record: addCollection for a leaf folder
\* name the folder map does not hold
ImportFolder ==
    /\ imp.pc = "folders"
    /\ imp.i < Len(imp.toImport)
    /\ LET bookmark == Batch(imp.toImport, imp.i)[imp.k]
           folderName == Leaf(bookmark.folder)
           newId == generateId(nextId + 1)
       IN IF folderName # "" /\ toLowerCase(folderName) \notin DOMAIN imp.folderMap
          THEN /\ addCollection(folderName)
               /\ imp' = IF AwaitsBackend
                         THEN [imp EXCEPT !.pc = "awaitCollection", !.awaiting = newId,
                                          !.created = Append(@, folderName)]
                         ELSE Advance([imp EXCEPT
                                  !.folderMap = MapSet(@, toLowerCase(folderName), newId),
                                  !.k = @ + 1,
                                  !.created = Append(@, folderName)])
          ELSE /\ NoOp
               /\ UNCHANGED <<envVars, fetching>>
               /\ imp' = Advance([imp EXCEPT !.k = @ + 1])
    /\ UNCHANGED local

\* addCollection returned, its remote write settled either way: the id goes
\* into the folder map
FolderCreated ==
    /\ imp.pc = "awaitCollection"
    /\ ~InFlight(imp.awaiting)
    /\ LET folderName == Leaf(Batch(imp.toImport, imp.i)[imp.k].folder)
       IN imp' = Advance([imp EXCEPT
                     !.folderMap = MapSet(@, toLowerCase(folderName), imp.awaiting),
                     !.k = @ + 1, !.pc = "folders", !.awaiting = ""])
    /\ UNCHANGED <<storeVars, nextId, clock, pending>>
    /\ ImportFrame

\* the bookmark loop of a batch, one record: addBookmark under the collection
\* the folder map gives for the leaf folder name
ImportBookmark ==
    /\ imp.pc = "bookmarks"
    /\ LET parsed == Batch(imp.toImport, imp.i)[imp.k]
           folderName == toLowerCase(Leaf(parsed.folder))
           collectionId == IF folderName # "" /\ folderName \in DOMAIN imp.folderMap
                           THEN imp.folderMap[folderName] ELSE "unsorted"
       IN /\ addBookmark(parsed.url, collectionId, << >>, FALSE)
          /\ imp' = IF AwaitsBackend
                    THEN [imp EXCEPT !.pc = "awaitBookmark",
                                     !.awaiting = generateId(nextId + 1),
                                     !.attempted = Append(@, parsed.url)]
                    ELSE Advance([imp EXCEPT !.imported = @ + 1, !.k = @ + 1,
                                             !.attempted = Append(@, parsed.url)])
    /\ UNCHANGED local

\* addBookmark returned, its remote write settled either way: imported++
BookmarkAdded ==
    /\ imp.pc = "awaitBookmark"
    /\ ~InFlight(imp.awaiting)
    /\ imp' = Advance([imp EXCEPT !.imported = @ + 1, !.k = @ + 1,
                                  !.pc = "bookmarks", !.awaiting = ""])
    /\ UNCHANGED <<storeVars, nextId, clock, pending>>
    /\ ImportFrame

\* a loop whose index moves by one record
NextBatchByOne ==
    /\ imp.pc = "pause"
    /\ imp' = [imp EXCEPT !.i = @ + 1, !.k = 1, !.pc = "folders"]
    /\ UNCHANGED <<storeVars, nextId, clock, pending>>
    /\ ImportFrame

\* the 100 ms pause is over: i += batchSize
NextBatch ==
    /\ imp.pc = "pause"
    /\ imp' = [imp EXCEPT !.i = @ + batchSize, !.k = 1, !.pc = "folders"]
    /\ UNCHANGED <<storeVars, nextId, clock, pending>>
    /\ ImportFrame

\* a report whose total is the size of the working set
ImportCompleteCountingWorkingSet ==
    /\ imp.pc = "folders"
    /\ imp.i >= Len(imp.toImport)
    /\ imp' = [imp EXCEPT
          !.stats = [total |-> Len(imp.toImport), imported |-> imp.imported,
                     skipped |-> imp.duplicateCount, errors |-> imp.errors],
          !.step = "complete", !.pc = "idle"]
    /\ UNCHANGED <<storeVars, nextId, clock, pending>>
    /\ ImportFrame

\* the loop is over: setStats and setStep('complete')
ImportComplete ==
    /\ imp.pc = "folders"
    /\ imp.i >= Len(imp.toImport)
    /\ imp' = [imp EXCEPT
          !.stats = [total |-> Len(imp.parsedBookmarks), imported |-> imp.imported,
                     skipped |-> imp.duplicateCount, errors |-> imp.errors],
          !.step = "complete", !.pc = "idle"]
    /\ UNCHANGED <<storeVars, nextId, clock, pending>>
    /\ ImportFrame

\* handleImport is between two turns of the event loop
Yielded == imp.pc \in {"idle", "awaitCollection", "awaitBookmark", "pause"}

\* record the dialog step that runs and the store it started from
ObserveImport(op) ==
    /\ last' = [op |-> op, id |-> "", n |-> 0]
    /\ pre' = Store
    /\ UNCHANGED <<hook, call, stored, net>>

\* the device's cache holds nothing or one bookmark, and the default
\* collections with or without a folder of an earlier import
InitImport ==
    /\ bookmarks \in {<< >>, <<SavedBookmark("b1", "unsorted", << >>)>>}
    /\ collections \in
           {defaultCollections,
            defaultCollections \o <<[id |-> "c1", name |-> "Docs", isSystem |-> FALSE]>>}
    /\ tags = defaultTags
    /\ user \in {"none", "u1"}
    /\ isSyncing = FALSE
    /\ demo \in BOOLEAN
    /\ configured \in BOOLEAN
    /\ online = TRUE
    /\ nextId = 0
    /\ clock = 0
    /\ pending = << >>
    /\ fetching = FALSE
    /\ imp = DialogOpened
    /\ local = << >>
    /\ last = [op |-> "init", id |-> "", n |-> 0]
    /\ pre = NoPre
    /\ hook = NoHook
    /\ stored = NoBlob
    /\ net = NoNet
    /\ call = NoCall

NextImport ==
    \/ \E file \in ParsedFiles : handleFileSelect(file) /\ ObserveImport("handleFileSelect")
    \/ \E checked \in BOOLEAN :
          setSkipDuplicates(checked) /\ ObserveImport("setSkipDuplicates")
    \/ handleImport /\ ObserveImport("handleImport")
    \/ ImportFolder /\ ObserveImport("ImportFolder")
    \/ FolderCreated /\ ObserveImport("FolderCreated")
    \/ ImportBookmark /\ ObserveImport("ImportBookmark")
    \/ BookmarkAdded /\ ObserveImport("BookmarkAdded")
    \/ NextBatch /\ ObserveImport("NextBatch")
    \/ ImportComplete /\ ObserveImport("ImportComplete")
    \/ \E i \in DOMAIN pending : ConfirmWrite(i) /\ ObserveSettle("confirm", i)
    \/ \E i \in DOMAIN pending : FailWrite(i) /\ ObserveSettle("rollback", i)
    \/ /\ Yielded
       /\ addBookmarkFromRemote(RemoteBookmark)
       /\ Observe("addBookmarkFromRemote", RemoteBookmarkId, 0)

SpecImport == InitImport /\ [][NextImport]_vars

\* C10: an import run with skipDuplicates set never inserts a bookmark whose
\* normalized URL is that of a bookmark in the store at the moment of the
\* insertion, whether it was there before the run or came during it; with
\* skipDuplicates unset every parsed record is attempted.
C10_ImportSkipsDuplicates ==
    /\ (/\ last.op = "ImportBookmark"
        /\ imp.skipDuplicates
        /\ Len(bookmarks) = Len(pre.bookmarks) + 1) =>
           normalizeUrl(bookmarks[Len(bookmarks)].url) \notin existingUrls(pre.bookmarks)
    /\ (imp.step \in {"importing", "complete"} /\ ~imp.skipDuplicates) =>
           imp.toImport = imp.parsedBookmarks
    /\ (imp.step = "complete" /\ ~imp.skipDuplicates) =>
           imp.stats.imported + imp.stats.errors = Len(imp.parsedBookmarks)

\* C6: every bookmark's collectionId is "unsorted" or the id of a collection
\* of the store, after local actions, rollbacks of failed writes (a rolled
\* back addCollection among them), import runs and realtime events.
C6_CollectionIdResolves ==
    \A i \in DOMAIN bookmarks :
        bookmarks[i].collectionId \in Ids(collections) \cup {"unsorted"}

\* ------------------------------------------------------------------ an import of more than one batch
\* the run of SpecImport on the long file, with the results of its remote
\* writes and no other event
NextBatches ==
    \/ handleFileSelect(LongFile) /\ ObserveImport("handleFileSelect")
    \/ \E checked \in BOOLEAN :
          setSkipDuplicates(checked) /\ ObserveImport("setSkipDuplicates")
    \/ handleImport /\ ObserveImport("handleImport")
    \/ ImportFolder /\ ObserveImport("ImportFolder")
    \/ FolderCreated /\ ObserveImport("FolderCreated")
    \/ ImportBookmark /\ ObserveImport("ImportBookmark")
    \/ BookmarkAdded /\ ObserveImport("BookmarkAdded")
    \/ NextBatch /\ ObserveImport("NextBatch")
    \/ ImportComplete /\ ObserveImport("ImportComplete")
    \/ \E i \in DOMAIN pending : ConfirmWrite(i) /\ ObserveSettle("confirm", i)
    \/ \E i \in DOMAIN pending : FailWrite(i) /\ ObserveSettle("rollback", i)

SpecBatches == InitImport /\ [][NextBatches]_vars

\* the leaf folder names of a list of parsed records, lower-cased
LeafKeys(parsed) ==
    {toLowerCase(Leaf(parsed[n].folder)) : n \in DOMAIN parsed} \ {""}

\* C11: in one import run, over all its batches, addCollection is called at
\* most once for each leaf folder name, names compared without regard to
\* letter case, and never for a name that a collection of the store carried
\* when the run began; so no more collections are created than the working
\* set has distinct leaf names.
C11_OneCollectionPerFolder ==
    /\ \A m, n \in DOMAIN imp.created :
          toLowerCase(imp.created[m]) = toLowerCase(imp.created[n]) => m = n
    /\ \A n \in DOMAIN imp.created :
          /\ toLowerCase(imp.created[n]) \in LeafKeys(imp.toImport)
          /\ imp.before # << >> =>
                \A j \in DOMAIN imp.before.collections :
                    toLowerCase(imp.before.collections[j].name)
                        # toLowerCase(imp.created[n])

\* a run over two batches is complete: it created "Docs" and "Personal" in
\* the first batch and met "docs" in the second
C11_Witness ==
    /\ imp.step = "complete"
    /\ imp.i > batchSize
    /\ Len(imp.created) = 2
    /\ "docs" \in LeafKeys(Batch(imp.toImport, batchSize))

\* C12: when an import run completes, total is the number of parsed records,
\* skipped the number of parsed records whose normalized URL a bookmark of
\* the store had before the run, and imported + errors the size of the
\* working set; every record of the working set was handed to addBookmark, in
\* order, whatever became of the remote writes of the records before it.
C12_ImportReport ==
    imp.step = "complete" =>
        /\ imp.stats.total = Len(imp.parsedBookmarks)
        /\ imp.stats.skipped =
              Cardinality({n \in DOMAIN imp.parsedBookmarks :
                  \E j \in DOMAIN imp.before.bookmarks :
                      normalizeUrl(imp.before.bookmarks[j].url)
                          = normalizeUrl(imp.parsedBookmarks[n].url)})
        /\ imp.stats.imported + imp.stats.errors = Len(imp.toImport)
        /\ imp.attempted = [n \in DOMAIN imp.toImport |-> imp.toImport[n].url]

\* a run over two batches is complete that skipped a duplicate and lost an
\* insert of its first batch to a failed remote write
C12_Witness ==
    /\ imp.step = "complete"
    /\ imp.i > batchSize
    /\ imp.stats.skipped > 0
    /\ Len(imp.toImport) < Len(imp.parsedBookmarks)
    /\ ~demo
    /\ Len(bookmarks) > Len(imp.before.bookmarks)
    /\ Len(bookmarks) < Len(imp.before.bookmarks) + Len(imp.toImport)

\* ------------------------------------------------------------------ the realtime change feed
\* handleBookmarkChange(payload): the row is payload.new after toCamelCase, the
\* id is payload.old.id for a DELETE
handleBookmarkChange(eventType, row, id) ==
    CASE eventType = "INSERT" -> addBookmarkFromRemote(row)
      [] eventType = "UPDATE" -> updateBookmarkFromRemote(row.id, row)
      [] eventType = "DELETE" -> deleteBookmarkFromRemote(id)

handleCollectionChange(eventType, row, id) ==
    CASE eventType = "INSERT" -> addCollectionFromRemote(row)
      [] eventType = "UPDATE" -> updateCollectionFromRemote(row.id, row)
      [] eventType = "DELETE" -> deleteCollectionFromRemote(id)

handleTagChange(eventType, row, id) ==
    CASE eventType = "INSERT" -> addTagFromRemote(row)
      [] eventType = "UPDATE" -> updateTagFromRemote(row.id, row)
      [] eventType = "DELETE" -> deleteTagFromRemote(id)

\* the store action an event of a table ends in
RemoteOp(table, eventType) ==
    CASE eventType = "INSERT" -> "add" \o table \o "FromRemote"
      [] eventType = "UPDATE" -> "update" \o table \o "FromRemote"
      [] eventType = "DELETE" -> "delete" \o table \o "FromRemote"

\* the ids a DELETE event can carry: of a record of the list, of a row of
\* another device, or of a row this device never saw
DeletedIds(s, remoteId) == Ids(s) \cup {remoteId, MissingId}

\* a device with a session, online, over a store that holds the defaults
InitRealtime ==
    /\ bookmarks = << >>
    /\ collections = defaultCollections
    /\ tags = defaultTags
    /\ user = "u1"
    /\ isSyncing = FALSE
    /\ demo = FALSE
    /\ configured = TRUE
    /\ online = TRUE
    /\ nextId = 0
    /\ clock = 0
    /\ pending = << >>
    /\ fetching = FALSE
    /\ imp = << >>
    /\ local = << >>
    /\ last = [op |-> "init", id |-> "", n |-> 0]
    /\ pre = NoPre
    /\ hook = NoHook
    /\ stored = NoBlob
    /\ net = NoNet
    /\ call = NoCall

NextRealtime ==
    \/ \E row \in BookmarkRows :
          /\ handleBookmarkChange("INSERT", row, "")
          /\ Observe(RemoteOp("Bookmark", "INSERT"), row.id, 0)
    \/ \E row \in BookmarkRows :
          /\ handleBookmarkChange("UPDATE", row, "")
          /\ Observe(RemoteOp("Bookmark", "UPDATE"), row.id, 0)
    \/ \E id \in DeletedIds(bookmarks, RemoteBookmarkId) :
          /\ handleBookmarkChange("DELETE", << >>, id)
          /\ Observe(RemoteOp("Bookmark", "DELETE"), id, 0)
    \/ \E row \in CollectionRows :
          /\ handleCollectionChange("INSERT", row, "")
          /\ Observe(RemoteOp("Collection", "INSERT"), row.id, 0)
    \/ \E row \in CollectionRows :
          /\ handleCollectionChange("UPDATE", row, "")
          /\ Observe(RemoteOp("Collection", "UPDATE"), row.id, 0)
    \/ \E id \in DeletedIds(collections, RemoteCollectionId) :
          /\ handleCollectionChange("DELETE", << >>, id)
          /\ Observe(RemoteOp("Collection", "DELETE"), id, Members(bookmarks, id))
    \/ \E row \in TagRows :
          /\ handleTagChange("INSERT", row, "")
          /\ Observe(RemoteOp("Tag", "INSERT"), row.id, 0)
    \/ \E row \in TagRows :
          /\ handleTagChange("UPDATE", row, "")
          /\ Observe(RemoteOp("Tag", "UPDATE"), row.id, 0)
    \/ \E id \in DeletedIds(tags, RemoteTagId) :
          /\ handleTagChange("DELETE", << >>, id)
          /\ Observe(RemoteOp("Tag", "DELETE"), id, Tagged(bookmarks, id))
    \/ addBookmark(UrlA, "unsorted", << >>, FALSE) /\ Observe("addBookmark", "", 0) /\ Within
    \/ addCollection("n1") /\ Observe("addCollection", "", 0) /\ Within
    \/ addTag("n1") /\ Observe("addTag", "", 0) /\ Within
    \/ \E i \in DOMAIN pending : ConfirmWrite(i) /\ ObserveSettle("confirm", i)
    \/ \E i \in DOMAIN pending : FailWrite(i) /\ ObserveSettle("rollback", i)

SpecRealtime == InitRealtime /\ [][NextRealtime]_vars

\* the number of records of a list that carry an id
Carrying(s, id) == Cardinality({i \in DOMAIN s : s[i].id = id})

\* C13: a realtime insert for an id the store already holds changes nothing,
\* for bookmarks, collections and tags; so the echo of the device's own
\* optimistic insert, or a second delivery of an event, leaves one record
\* with that id.
C13_RemoteInsertIsIdempotent ==
    /\ (last.op = "addBookmarkFromRemote" /\ last.id \in Ids(pre.bookmarks)) =>
           Store = pre /\ Carrying(bookmarks, last.id) = 1
    /\ (last.op = "addCollectionFromRemote" /\ last.id \in Ids(pre.collections)) =>
           Store = pre /\ Carrying(collections, last.id) = 1
    /\ (last.op = "addTagFromRemote" /\ last.id \in Ids(pre.tags)) =>
           Store = pre /\ Carrying(tags, last.id) = 1

\* the echo of the device's own insert of a bookmark arrives while the insert
\* is still awaited
C13_Witness ==
    /\ last.op = "addBookmarkFromRemote"
    /\ last.id = generateId(1)
    /\ \E j \in DOMAIN pending : pending[j].id = last.id

\* C14: a realtime delete event for an id the store does not hold, of a
\* bookmark, a collection or a tag, leaves bookmarks, collections and tags
\* unchanged.
C14_RemoteDeleteOfUnknownId ==
    /\ (last.op = "deleteBookmarkFromRemote" /\ last.id \notin Ids(pre.bookmarks)) =>
           Store = pre
    /\ (last.op = "deleteCollectionFromRemote" /\ last.id \notin Ids(pre.collections)) =>
           Store = pre
    /\ (last.op = "deleteTagFromRemote" /\ last.id \notin Ids(pre.tags)) =>
           Store = pre

\* ------------------------------------------------------------------ the refetch over a worn store
\* a device with a session whose persisted store may have lost its system
\* collections
InitFetch ==
    /\ bookmarks = << >>
    /\ collections \in {defaultCollections, << >>, SubSeq(SavedCollections, 1, 3)}
    /\ tags = defaultTags
    /\ user = "u1"
    /\ isSyncing = FALSE
    /\ demo = FALSE
    /\ configured = TRUE
    /\ online = TRUE
    /\ nextId = 0
    /\ clock = 0
    /\ pending = << >>
    /\ fetching = FALSE
    /\ imp = << >>
    /\ local = << >>
    /\ last = [op |-> "init", id |-> "", n |-> 0]
    /\ pre = NoPre
    /\ hook = NoHook
    /\ stored = NoBlob
    /\ net = NoNet
    /\ call = NoCall

NextFetch ==
    \/ fetchFromSupabase /\ Observe("fetchFromSupabase", "", 0)
    \/ \E res \in FetchResults : FetchDone(res) /\ Observe("fetchDone", "", 0)
    \/ FetchFailed /\ Observe("fetchFailed", "", 0)
    \/ Connectivity /\ Observe("connectivity", "", 0)
    \/ \E u \in {"none", "u1"} : setUser(u) /\ Observe("setUser", "", 0)
    \/ \E id \in DeletedIds(collections, RemoteCollectionId) :
          /\ handleCollectionChange("DELETE", << >>, id)
          /\ Observe(RemoteOp("Collection", "DELETE"), id, Members(bookmarks, id))

SpecFetch == InitFetch /\ [][NextFetch]_vars

\* C18: right after a fetchFromSupabase that overwrote the lists, collections
\* holds both "all" and "unsorted", whatever rows the backend returned.
C18_FetchKeepsSystemCollections ==
    last.op = "fetchDone" => {"all", "unsorted"} \subseteq Ids(collections)

\* the refetch ran over a store that had lost "unsorted", and the backend
\* returned no collection row
C18_Witness ==
    /\ last.op = "fetchDone"
    /\ "unsorted" \notin Ids(pre.collections)
    /\ Ids(collections) = {"all", "unsorted"}

\* ------------------------------------------------------------------ normalizeUrl on its own
\* the strings normalizeUrl is given: a scheme and a host in either case, a
\* path of at most MaxPath tokens that starts with "/", with or without a
\* query; and strings new URL() rejects
PathTokens == {"/", "p", "P"}

RECURSIVE PathsOf(_)
PathsOf(n) ==
    IF n = 0 THEN {<< >>}
    ELSE LET shorter == PathsOf(n - 1)
         IN shorter \cup {Append(t, c) : t \in shorter, c \in PathTokens}

Paths == {<< >>} \cup {<<"/">> \o t : t \in PathsOf(MaxPath - 1)}

Unparseable == {<<"A">>, <<"P", "/">>, <<"a", "/", "/">>}

Urls ==
    {<<"http://", h>> \o t \o q :
        h \in Hosts, t \in Paths, q \in {<< >>} \cup {<<x>> : x \in QueryTokens}}
    \cup Unparseable

\* the part of a parseable string between the host and the query
RawPath(url) == SubSeq(url, 3, Len(url) - Len(Search(url)))

\* the strings that differ from url by one trailing slash of the path, or by
\* the letter case of the host
Variants(url) ==
    IF ~Parseable(url) THEN {}
    ELSE {<<url[1], h>> \o RawPath(url) \o Search(url) :
            h \in {x \in Hosts : toLowerCase(x) = toLowerCase(url[2])}}
         \cup {<<url[1], url[2]>> \o RawPath(url) \o <<"/">> \o Search(url)}

PureFrame ==
    UNCHANGED <<storeVars, envVars, nextId, clock, pending, fetching, imp, local,
                last, pre, hook, stored, net>>

InitNormalize ==
    /\ bookmarks = << >>
    /\ collections = defaultCollections
    /\ tags = defaultTags
    /\ user = "none"
    /\ isSyncing = FALSE
    /\ demo = FALSE
    /\ configured = FALSE
    /\ online = TRUE
    /\ nextId = 0
    /\ clock = 0
    /\ pending = << >>
    /\ fetching = FALSE
    /\ imp = << >>
    /\ local = << >>
    /\ last = [op |-> "init", id |-> "", n |-> 0]
    /\ pre = NoPre
    /\ hook = NoHook
    /\ stored = NoBlob
    /\ net = NoNet
    /\ \E url \in Urls : call = [fn |-> "none", arg |-> url, out |-> << >>]

\* normalizeUrl(url) is called
CallNormalizeUrl ==
    /\ call.fn = "none"
    /\ call' = [fn |-> "normalizeUrl", arg |-> call.arg, out |-> normalizeUrl(call.arg)]
    /\ PureFrame

\* what it returned becomes the next argument
PassOn ==
    /\ call.fn = "normalizeUrl"
    /\ call.out # call.arg
    /\ call' = [fn |-> "none", arg |-> call.out, out |-> << >>]
    /\ PureFrame

NextNormalize == CallNormalizeUrl \/ PassOn

SpecNormalize == InitNormalize /\ [][NextNormalize]_vars

\* C19: normalizeUrl(normalizeUrl(u)) = normalizeUrl(u) for every string u,
\* and two URLs that differ by one trailing slash of the path or by the
\* letter case of the host have the same normal form.
C19_NormalizeUrlIsIdempotent ==
    call.fn = "normalizeUrl" =>
        /\ normalizeUrl(call.out) = call.out
        /\ \A v \in Variants(call.arg) : normalizeUrl(v) = call.out

\* ------------------------------------------------------------------ parseBookmarkHtml
\* the document DOMParser builds: a DL element holds its children in
\* document order; a DT child holds an H3 (a folder, with or without a nested
\* DL) or an A (a link); other elements carry nothing
Link(href) == [tag |-> "DT", href |-> href]

Folder(name, nested) == [tag |-> "DT", h3 |-> name, dl |-> nested]

DL(children) == [tag |-> "DL", children |-> children]

Other == [tag |-> "P"]

\* isValidUrl(string): new URL() succeeds and the protocol is http: or https:
isValidUrl(string) ==
    /\ Len(string) >= 2
    /\ string[1] \in {"http://", "https://"}
    /\ string[2] \in Hosts

\* the children a DL of an exported file is made of
ChildElements ==
    { Link(<<"http://", "a">>),
      Link(<<"https://", "b">>),
      Link(<<"ftp://", "a">>),
      Folder("Docs", << DL(<< Link(<<"http://", "a", "/", "p">>),
                              Folder("Work", << DL(<< Link(<<"https://", "b", "/">>) >>) >>),
                              Link(<<"http://", "A">>) >>) >>),
      Folder("Personal", << >>),
      DL(<< Link(<<"http://", "b">>), Link(<<"a">>) >>),
      Other }

RECURSIVE ChildLists(_)
ChildLists(n) ==
    IF n = 0 THEN {<< >>}
    ELSE LET shorter == ChildLists(n - 1)
         IN shorter \cup {Append(t, c) : t \in shorter, c \in ChildElements}

\* doc.querySelector('DL'): << >> when the file has no DL
Documents == {<< >>} \cup {<< DL(t) >> : t \in ChildLists(MaxChildren)}

Limits == 0..MaxLimit

\* a loop that never stops at the limit
AtLimitNever(found, limit) == FALSE

\* bookmarks.length >= limit
AtLimit(found, limit) == Len(found.bookmarks) >= limit

\* a push that forgets the folders already open
PushAlone(folderStack, folderName) == << folderName >>

\* folderStack.push(folderName); the stack is joined with "/" where it is read
Push(folderStack, folderName) == Append(folderStack, folderName)

\* traverseDL(dl): found holds the bookmarks and folders collected so far,
\* folderStack the names of the open folders
RECURSIVE traverseDL(_, _, _, _), ForChildren(_, _, _, _, _)
ForChildren(children, k, folderStack, found, limit) ==
    IF k > Len(children) \/ AtLimit(found, limit) THEN found
    ELSE LET child == children[k]
             after ==
                 CASE child.tag = "DT" /\ "h3" \in DOMAIN child ->
                          LET opened == Push(folderStack, child.h3)
                              noted == [found EXCEPT !.folders = @ \cup {opened}]
                          IN IF child.dl # << >>
                             THEN traverseDL(child.dl[1], opened, noted, limit)
                             ELSE noted
                   [] child.tag = "DT" /\ "href" \in DOMAIN child ->
                          IF isValidUrl(child.href)
                          THEN [found EXCEPT !.bookmarks =
                                   Append(@, [url |-> child.href, folder |-> folderStack])]
                          ELSE found
                   [] child.tag = "DL" -> traverseDL(child, folderStack, found, limit)
                   [] OTHER -> found
         IN ForChildren(children, k + 1, folderStack, after, limit)

traverseDL(dl, folderStack, found, limit) ==
    ForChildren(dl.children, 1, folderStack, found, limit)

NoStructure == "No bookmark structure found in the file"

LimitReached == "Import limit reached. Some bookmarks may have been skipped."

parseBookmarkHtml(htmlContent, limit) ==
    LET nothing == [bookmarks |-> << >>, folders |-> {}]
        found == IF htmlContent # << >>
                 THEN traverseDL(htmlContent[1], << >>, nothing, limit)
                 ELSE nothing
        errors == (IF htmlContent # << >> THEN << >> ELSE << NoStructure >>)
                  \o (IF Len(found.bookmarks) = limit THEN << LimitReached >> ELSE << >>)
    IN [bookmarks |-> found.bookmarks, folders |-> found.folders, errors |-> errors]

InitParser ==
    /\ bookmarks = << >>
    /\ collections = defaultCollections
    /\ tags = defaultTags
    /\ user = "none"
    /\ isSyncing = FALSE
    /\ demo = FALSE
    /\ configured = FALSE
    /\ online = TRUE
    /\ nextId = 0
    /\ clock = 0
    /\ pending = << >>
    /\ fetching = FALSE
    /\ imp = << >>
    /\ local = << >>
    /\ last = [op |-> "init", id |-> "", n |-> 0]
    /\ pre = NoPre
    /\ hook = NoHook
    /\ stored = NoBlob
    /\ net = NoNet
    /\ \E html \in Documents, limit \in Limits :
          call = [fn |-> "none", arg |-> [html |-> html, limit |-> limit], out |-> << >>]

\* parseBookmarkHtml(html, limit) is called
CallParseBookmarkHtml ==
    /\ call.fn = "none"
    /\ call' = [fn |-> "parseBookmarkHtml", arg |-> call.arg,
                out |-> parseBookmarkHtml(call.arg.html, call.arg.limit)]
    /\ PureFrame

NextParser == CallParseBookmarkHtml

SpecParser == InitParser /\ [][NextParser]_vars

\* the hrefs of the links with an http or https url that a list of elements
\* holds, in document order
RECURSIVE ValidLinks(_)
ValidLinks(elements) ==
    IF elements = << >> THEN << >>
    ELSE LET e == elements[1]
             own == CASE e.tag = "DT" /\ "h3" \in DOMAIN e ->
                             IF e.dl = << >> THEN << >> ELSE ValidLinks(e.dl[1].children)
                      [] e.tag = "DT" /\ "href" \in DOMAIN e ->
                             IF isValidUrl(e.href) THEN << e.href >> ELSE << >>
                      [] e.tag = "DL" -> ValidLinks(e.children)
                      [] OTHER -> << >>
         IN own \o ValidLinks(Tail(elements))

\* C20: parseBookmarkHtml(html, limit) returns at most limit records; when the
\* file holds more valid http/https links than limit, the records are the
\* first limit links in document order and errors carries the truncation
\* warning.
C20_ParserHonoursLimit ==
    call.fn = "parseBookmarkHtml" =>
        LET links == ValidLinks(call.arg.html)
            limit == call.arg.limit
            urls == [n \in DOMAIN call.out.bookmarks |-> call.out.bookmarks[n].url]
        IN /\ Len(call.out.bookmarks) <= limit
           /\ Len(links) > limit =>
                 /\ urls = SubSeq(links, 1, limit)
                 /\ LimitReached \in Range(call.out.errors)

\* the limit is reached inside a folder of a file that holds links after it
C20_Witness ==
    /\ call.fn = "parseBookmarkHtml"
    /\ call.arg.limit > 0
    /\ Len(ValidLinks(call.arg.html)) > call.arg.limit + 1
    /\ call.out.bookmarks[call.arg.limit].folder # << >>

\* ------------------------------------------------------------------ useSupabaseAuth
\* the hook once mounted: isLoading is TRUE, the refs are null / false. pc is
\* the position of initialize(), sync that of authAndSync(), handler that of
\* the auth listener's callback for a fresh SIGNED_IN. session is what
\* supabase.auth holds ("none" for no session). A channel is a number; active
\* holds the channels that are subscribed; subscriptionRef is 0 for null.
\* Observers: event is the auth event delivered last, handled the event whose
\* callback returned last, with the number of channels made when it arrived
\* and subscriptionRef when it returned, and whether the event changed the
\* session (a session where there was none, a refreshed token, no session).
Mounted(session) ==
    [pc |-> "hydrating", sync |-> "idle", handler |-> "idle",
     isLoading |-> TRUE, subscriptionRef |-> 0, hasAuthenticatedRef |-> FALSE,
     session |-> session, active |-> {}, made |-> 0,
     events |-> 0, event |-> "none", arrived |-> 0,
     handled |-> [event |-> "none", change |-> FALSE, made |-> 0, ref |-> 0]]

Sessions == {"none", "u1"}

\* setupRealtimeSubscription()
setupRealtimeSubscription(h) ==
    IF ~configured THEN h
    ELSE [h EXCEPT !.active = (@ \ {h.subscriptionRef}) \cup {h.made + 1},
                   !.subscriptionRef = h.made + 1,
                   !.made = @ + 1]

\* if (subscriptionRef.current) { unsubscribe(); subscriptionRef.current = null }
TearDown(h) ==
    [h EXCEPT !.active = @ \ {h.subscriptionRef}, !.subscriptionRef = 0]

\* the continuation of Promise.race: setIsLoading(false), then the auth
\* listener is registered
Release(h) ==
    IF h.pc = "race"
    THEN [h EXCEPT !.isLoading = FALSE, !.pc = "listening"]
    ELSE h

\* fetchFromSupabase() goes to the backend for a user u
Fetches(u) == ~demo /\ configured /\ u # "none"

\* set({bookmarks, collections: mergedCollections, tags})
Fetched(res) ==
    [bookmarks |-> res.bookmarks,
     collections |-> MergedCollections(res.collections),
     tags |-> res.tags]

HookFrame ==
    UNCHANGED <<demo, configured, online, nextId, clock, pending, imp, local,
                last, pre, call, stored, net>>

\* a fetch of the task that resolves is over; another task's may still run
StillFetching(h) == h.sync = "fetching" \/ h.handler = "fetching"

\* useEffect on mount, up to the first await of initialize()
Mount ==
    /\ hook = NoHook
    /\ \E session \in Sessions :
          IF ~configured
          THEN /\ hook' = [Mounted(session) EXCEPT !.isLoading = FALSE, !.pc = "settled"]
               /\ user' = "none"
          ELSE /\ hook' = Mounted(session)
               /\ user' = user
    /\ UNCHANGED <<storeVars, isSyncing, fetching>>
    /\ HookFrame

\* initialize() after the 100 ms wait: the branch on hasCachedData and
\* navigator.onLine, and authAndSync() up to its await of getSession()
Hydrate ==
    /\ hook # NoHook
    /\ hook.pc = "hydrating"
    /\ LET hasCachedData == Len(bookmarks) > 0
       IN hook' = IF hasCachedData /\ ~online
                  THEN [hook EXCEPT !.pc = "offline"]
                  ELSE [hook EXCEPT !.pc = "race", !.sync = "getSession"]
    /\ UNCHANGED <<storeVars, user, isSyncing, fetching>>
    /\ HookFrame

\* the offline branch after getSession() resolved
SessionRecovered ==
    /\ hook # NoHook
    /\ hook.pc = "offline"
    /\ IF hook.session # "none"
       THEN /\ user' = hook.session
            /\ hook' = [hook EXCEPT !.hasAuthenticatedRef = TRUE,
                                    !.isLoading = FALSE, !.pc = "listening"]
       ELSE /\ user' = user
            /\ hook' = [hook EXCEPT !.isLoading = FALSE, !.pc = "listening"]
    /\ UNCHANGED <<storeVars, isSyncing, fetching>>
    /\ HookFrame

\* the offline branch after getSession() rejected
SessionRecoveryFailed ==
    /\ hook # NoHook
    /\ hook.pc = "offline"
    /\ hook' = [hook EXCEPT !.isLoading = FALSE, !.pc = "listening"]
    /\ UNCHANGED <<storeVars, user, isSyncing, fetching>>
    /\ HookFrame

\* authAndSync() after getSession() resolved, up to its await of
\* fetchFromSupabase() or to its end
SyncGotSession ==
    /\ hook # NoHook
    /\ hook.sync = "getSession"
    /\ IF hook.session # "none"
       THEN /\ user' = hook.session
            /\ IF online /\ Fetches(hook.session)
               THEN /\ isSyncing' = TRUE
                    /\ fetching' = TRUE
                    /\ hook' = [hook EXCEPT !.hasAuthenticatedRef = TRUE,
                                            !.sync = "fetching"]
               ELSE /\ UNCHANGED <<isSyncing, fetching>>
                    /\ hook' = Release(setupRealtimeSubscription(
                                   [hook EXCEPT !.hasAuthenticatedRef = TRUE,
                                                !.sync = "done"]))
       ELSE /\ user' = "none"
            /\ UNCHANGED <<isSyncing, fetching>>
            /\ hook' = Release([hook EXCEPT !.sync = "done"])
    /\ UNCHANGED storeVars
    /\ HookFrame

\* authAndSync() after getSession() rejected: it returns false
SyncSessionFailed ==
    /\ hook # NoHook
    /\ hook.sync = "getSession"
    /\ hook' = Release([hook EXCEPT !.sync = "failed"])
    /\ UNCHANGED <<storeVars, user, isSyncing, fetching>>
    /\ HookFrame

\* authAndSync() after fetchFromSupabase() resolved, having set the lists or
\* (res = << >>) having logged an error
SyncFetched(res) ==
    /\ hook # NoHook
    /\ hook.sync = "fetching"
    /\ IF res = << >> THEN UNCHANGED storeVars ELSE Put(Fetched(res))
    /\ LET h == setupRealtimeSubscription([hook EXCEPT !.sync = "done"])
       IN /\ hook' = Release(h)
          /\ fetching' = StillFetching(h)
    /\ isSyncing' = FALSE
    /\ user' = user
    /\ HookFrame

\* the timer of the race fires before authAndSync() returned
TimeoutFires ==
    /\ hook # NoHook
    /\ hook.pc = "race"
    /\ hook' = Release(hook)
    /\ UNCHANGED <<storeVars, user, isSyncing, fetching>>
    /\ HookFrame

AuthEvents == {"SIGNED_IN", "TOKEN_REFRESHED", "SIGNED_OUT"}

\* the callback of onAuthStateChange, up to its await of fetchFromSupabase()
\* or to its end; one fresh sign-in is handled at a time
AuthStateChange(event) ==
    /\ hook # NoHook
    /\ hook.pc = "listening"
    /\ hook.events < MaxEvents
    /\ event = "TOKEN_REFRESHED" => hook.session # "none"
    /\ LET session == IF event = "SIGNED_OUT" THEN "none"
                      ELSE IF event = "SIGNED_IN" THEN "u1" ELSE hook.session
           h == [hook EXCEPT !.session = session, !.events = @ + 1, !.event = event]
           Returned(g) ==
               [g EXCEPT !.handled = [event |-> event,
                                      change |-> event = "TOKEN_REFRESHED"
                                                    \/ session # hook.session,
                                      made |-> hook.made,
                                      ref |-> g.subscriptionRef]]
       IN IF session # "none"
          THEN /\ user' = session
               /\ IF event = "SIGNED_IN" /\ ~hook.hasAuthenticatedRef
                  THEN IF online /\ Fetches(session)
                       THEN /\ hook.handler = "idle"
                            /\ isSyncing' = TRUE
                            /\ fetching' = TRUE
                            /\ hook' = [h EXCEPT !.isLoading = TRUE,
                                                 !.hasAuthenticatedRef = TRUE,
                                                 !.handler = "fetching",
                                                 !.arrived = hook.made]
                       ELSE /\ UNCHANGED <<isSyncing, fetching>>
                            /\ hook' = Returned(setupRealtimeSubscription(
                                           [h EXCEPT !.isLoading = FALSE,
                                                     !.hasAuthenticatedRef = TRUE]))
                  ELSE /\ UNCHANGED <<isSyncing, fetching>>
                       /\ hook' = Returned([h EXCEPT !.hasAuthenticatedRef = TRUE])
          ELSE /\ user' = "none"
               /\ UNCHANGED <<isSyncing, fetching>>
               /\ hook' = Returned(TearDown([h EXCEPT !.hasAuthenticatedRef = FALSE]))
    /\ UNCHANGED storeVars
    /\ HookFrame

\* the callback of a fresh SIGNED_IN after fetchFromSupabase() resolved
HandlerFetched(res) ==
    /\ hook # NoHook
    /\ hook.handler = "fetching"
    /\ IF res = << >> THEN UNCHANGED storeVars ELSE Put(Fetched(res))
    /\ LET h == setupRealtimeSubscription(
                    [hook EXCEPT !.handler = "idle", !.isLoading = FALSE])
       IN /\ hook' = [h EXCEPT !.handled = [event |-> "SIGNED_IN",
                                            change |-> TRUE,
                                            made |-> hook.arrived,
                                            ref |-> h.subscriptionRef]]
          /\ fetching' = StillFetching(h)
    /\ isSyncing' = FALSE
    /\ user' = user
    /\ HookFrame

\* the cleanup initialize() returned: the listener and the channel are
\* unsubscribed, the ref keeps the channel
Unmount ==
    /\ hook # NoHook
    /\ hook.pc = "listening"
    /\ hook' = [hook EXCEPT !.pc = "unmounted", !.active = @ \ {hook.subscriptionRef}]
    /\ UNCHANGED <<storeVars, user, isSyncing, fetching>>
    /\ HookFrame

\* what fetchFromSupabase() can come back with: rows, or << >> for an error
FetchOutcomes == FetchResults \cup {<< >>}

\* the app starts over a cache with or without bookmarks, online or offline
InitHook ==
    /\ bookmarks \in {<< >>, <<SavedBookmark("b1", "unsorted", << >>)>>}
    /\ collections = defaultCollections
    /\ tags = defaultTags
    /\ user = "none"
    /\ isSyncing = FALSE
    /\ demo = FALSE
    /\ configured \in BOOLEAN
    /\ online \in BOOLEAN
    /\ nextId = 0
    /\ clock = 0
    /\ pending = << >>
    /\ fetching = FALSE
    /\ imp = << >>
    /\ local = << >>
    /\ last = [op |-> "init", id |-> "", n |-> 0]
    /\ pre = NoPre
    /\ hook = NoHook
    /\ stored = NoBlob
    /\ net = NoNet
    /\ call = NoCall

NextHook ==
    \/ Mount
    \/ Hydrate
    \/ SessionRecovered
    \/ SessionRecoveryFailed
    \/ SyncGotSession
    \/ SyncSessionFailed
    \/ \E res \in FetchOutcomes : SyncFetched(res)
    \/ TimeoutFires
    \/ \E event \in AuthEvents : AuthStateChange(event)
    \/ \E res \in FetchOutcomes : HandlerFetched(res)
    \/ Unmount
    \/ Connectivity /\ UNCHANGED <<imp, local, last, pre, hook, call, stored, net>>

SpecHook == InitHook /\ [][NextHook]_vars

\* timers fire and continuations that are ready run; nothing makes
\* getSession() or the selects of fetchFromSupabase() come back
SpecHookFair ==
    /\ SpecHook
    /\ WF_vars(Mount)
    /\ WF_vars(Hydrate)
    /\ WF_vars(TimeoutFires)

\* C15: when the auth listener has handled an event that changed the session
\* and carries one (sign-in, token refresh), the realtime subscription has
\* been set up anew since the event arrived; when it has handled a sign-out,
\* there is none.
C15_SubscriptionFollowsSession ==
    hook # NoHook =>
        /\ (hook.handled.change
               /\ hook.handled.event \in {"SIGNED_IN", "TOKEN_REFRESHED"}) =>
               hook.handled.ref > hook.handled.made
        /\ hook.handled.event = "SIGNED_OUT" => hook.handled.ref = 0

\* C16: at most one realtime channel is subscribed at any time, and none is
\* while the last auth event is a sign-out.
C16_OneSubscription ==
    hook # NoHook =>
        /\ Cardinality(hook.active) <= 1
        /\ hook.event = "SIGNED_OUT" => hook.active = {}

\* C17: with the backend configured, startup comes to a state where isLoading
\* is false, whether or not getSession() and the initial fetch ever resolve.
C17_StartupReleasesLoading ==
    <>(hook # NoHook /\ ~hook.isLoading)

\* the links with a valid url under a list of elements, each with the names
\* of the folders that enclose it, outermost first, in document order
RECURSIVE Enclosed(_, _)
Enclosed(elements, path) ==
    IF elements = << >> THEN << >>
    ELSE LET e == elements[1]
             own == CASE e.tag = "DT" /\ "h3" \in DOMAIN e ->
                             IF e.dl = << >> THEN << >>
                             ELSE Enclosed(e.dl[1].children, path \o << e.h3 >>)
                      [] e.tag = "DT" /\ "href" \in DOMAIN e ->
                             IF isValidUrl(e.href)
                             THEN << [url |-> e.href, folder |-> path] >> ELSE << >>
                      [] e.tag = "DL" -> Enclosed(e.children, path)
                      [] OTHER -> << >>
         IN own \o Enclosed(Tail(elements), path)

\* the full path of every folder under a list of elements
RECURSIVE FolderPaths(_, _)
FolderPaths(elements, path) ==
    IF elements = << >> THEN {}
    ELSE LET e == elements[1]
             own == CASE e.tag = "DT" /\ "h3" \in DOMAIN e ->
                             {path \o << e.h3 >>}
                                 \cup (IF e.dl = << >> THEN {}
                                       ELSE FolderPaths(e.dl[1].children, path \o << e.h3 >>))
                      [] e.tag = "DL" -> FolderPaths(e.children, path)
                      [] OTHER -> {}
         IN own \cup FolderPaths(Tail(elements), path)

\* C21: every record the parser returns carries the names of exactly the
\* folders that enclose it, outermost first (none at the root, none of a
\* folder that is only an earlier sibling), and, when the traversal was not
\* cut short by the limit, the folder set holds the full path of every folder.
C21_FolderPaths ==
    (call.fn = "parseBookmarkHtml" /\ call.arg.html # << >>) =>
        LET children == call.arg.html[1].children
            all == Enclosed(children, << >>)
        IN /\ call.out.bookmarks = SubSeq(all, 1, Len(call.out.bookmarks))
           /\ Len(all) < call.arg.limit =>
                 call.out.folders = FolderPaths(children, << >>)

\* a link two folders deep, a link at the root after those folders, and a
\* folder without links in the returned set
C21_Witness ==
    /\ call.fn = "parseBookmarkHtml"
    /\ \E m, n \in DOMAIN call.out.bookmarks :
          /\ m < n
          /\ call.out.bookmarks[m].folder = <<"Docs", "Work">>
          /\ call.out.bookmarks[n].folder = << >>
    /\ call.out.folders = {<<"Docs">>, <<"Docs", "Work">>, <<"Personal">>}

\* ------------------------------------------------------------------ the persisted store
\* partialize(state): the lists are what the blob keeps of the model's state
partialize(st) ==
    [bookmarks |-> st.bookmarks, collections |-> st.collections, tags |-> st.tags]

\* what an earlier session without demo mode left under the key
RealBlob ==
    partialize([bookmarks |-> <<SavedBookmark("b1", "c1", <<"t1">>)>>,
                collections |-> SubSeq(SavedCollections, 1, 3),
                tags |-> SubSeq(SavedTags, 1, 1)])

\* the persist middleware hands the partialized state to setItem after every
\* set() of the store; an action that returned before its set() writes nothing
setItem ==
    stored' = IF <<bookmarks, collections, tags, user, isSyncing>>'
                     # <<bookmarks, collections, tags, user, isSyncing>>
              THEN partialize([bookmarks |-> bookmarks', collections |-> collections',
                               tags |-> tags'])
              ELSE stored

Persisted(op) ==
    /\ setItem
    /\ last' = [op |-> op, id |-> "", n |-> 0]
    /\ pre' = Store
    /\ UNCHANGED <<imp, local, hook, call, net>>

StoreIdle ==
    UNCHANGED <<storeVars, envVars, nextId, clock, pending, fetching, imp, local,
                hook, call, net>>

\* storage.removeItem(name)
removeItem ==
    /\ stored' = IF demo THEN stored ELSE NoBlob
    /\ last' = [op |-> "removeItem", id |-> "", n |-> 0]
    /\ pre' = Store
    /\ StoreIdle

\* hydration: storage.getItem(name), merged into the state; skipped when
\* skipHydration is set
rehydrate ==
    /\ ~demo
    /\ last.op = "init"
    /\ IF stored = NoBlob THEN UNCHANGED storeVars ELSE Put(stored)
    /\ last' = [op |-> "rehydrate", id |-> "", n |-> 0]
    /\ pre' = Store
    /\ UNCHANGED <<stored, envVars, nextId, clock, pending, fetching, imp, local,
                   hook, call, net>>

\* a device that holds the dataset of an earlier session, started with or
\* without demo mode
InitPersist ==
    /\ bookmarks = << >>
    /\ collections = defaultCollections
    /\ tags = defaultTags
    /\ user = "none"
    /\ isSyncing = FALSE
    /\ demo \in BOOLEAN
    /\ configured = FALSE
    /\ online = TRUE
    /\ nextId = 0
    /\ clock = 0
    /\ pending = << >>
    /\ fetching = FALSE
    /\ imp = << >>
    /\ local = << >>
    /\ last = [op |-> "init", id |-> "", n |-> 0]
    /\ pre = NoPre
    /\ hook = NoHook
    /\ call = NoCall
    /\ stored = RealBlob
    /\ net = NoNet

NextPersist ==
    \/ rehydrate
    \/ removeItem
    \/ initializeDemoMode /\ Persisted("initializeDemoMode")
    \/ addBookmark(UrlA, "unsorted", << >>, FALSE) /\ Persisted("addBookmark") /\ WithinDemo
    \/ \E id \in Targets(bookmarks) : deleteBookmark(id) /\ Persisted("deleteBookmark")
    \/ addCollection("n1") /\ Persisted("addCollection") /\ WithinDemo

SpecPersist == InitPersist /\ [][NextPersist]_vars

\* C22: in demo mode the dataset an earlier session without demo mode left
\* under the store's key stays as it was, whatever the demo session does.
C22_DemoKeepsCache == demo => stored = RealBlob

\* ------------------------------------------------------------------ the import run to its end
\* the continuations of handleImport, each ready to run when enabled
ImportSteps ==
    \/ ImportFolder /\ ObserveImport("ImportFolder")
    \/ FolderCreated /\ ObserveImport("FolderCreated")
    \/ ImportBookmark /\ ObserveImport("ImportBookmark")
    \/ BookmarkAdded /\ ObserveImport("BookmarkAdded")
    \/ NextBatch /\ ObserveImport("NextBatch")
    \/ ImportComplete /\ ObserveImport("ImportComplete")

\* a remote call comes back, with a result or with an error
Settles ==
    \/ \E i \in DOMAIN pending : ConfirmWrite(i) /\ ObserveSettle("confirm", i)
    \/ \E i \in DOMAIN pending : FailWrite(i) /\ ObserveSettle("rollback", i)

\* the event loop runs a continuation that is ready, the 100 ms timer fires,
\* and every remote call returns
SpecBatchesFair ==
    /\ SpecBatches
    /\ WF_vars(ImportSteps)
    /\ WF_vars(Settles)

\* C23: an import run that has started reaches the 'complete' step; while it
\* runs the reported progress never decreases, the index moves by whole
\* batches, and after the last batch of a non-empty working set the progress
\* is 100.
C23_ImportRunsToCompletion ==
    /\ (imp.step = "importing") ~> (imp.step = "complete")
    /\ [][imp.step = "importing" =>
             /\ imp'.importProgress >= imp.importProgress
             /\ imp'.i \in {imp.i, imp.i + batchSize}]_vars
    /\ []((imp.step = "complete" /\ imp.toImport # << >>) => imp.importProgress = 100)

\* a run over two batches is complete, with a folder created and a write that
\* failed on the way
C23_Witness ==
    /\ imp.step = "complete"
    /\ imp.i > batchSize
    /\ imp.importProgress = 100
    /\ imp.created # << >>
    /\ ~demo
    /\ Len(bookmarks) < Len(imp.before.bookmarks) + Len(imp.toImport)

\* C27: when a run is complete, the imported count is the number of records
\* of the working set whose bookmark is in the store, and the others are
\* counted as errors.
C27_ImportedAreInStore ==
    imp.step = "complete" =>
        /\ imp.stats.imported = Len(bookmarks) - Len(imp.before.bookmarks)
        /\ imp.stats.errors = Len(imp.toImport) - imp.stats.imported

\* C30: when a run is complete, total = imported + skipped + errors, with
\* skipDuplicates on or off.
C30_CountsAddUp ==
    imp.step = "complete" =>
        imp.stats.total = imp.stats.imported + imp.stats.skipped + imp.stats.errors

\* ------------------------------------------------------------------ writes, the change feed and refetches in a race
\* the timestamps a run with the backend's side takes: an add and two updates
RaceClock == MaxClock + 2

\* and the ids it takes: one add
RaceIds == MaxIds - 1

WithinRace == nextId' <= RaceIds /\ clock' <= RaceClock

\* the flags an update or a change event sets on a bookmark
Flags == {"isFavorite", "isPinned", "isArchived"}

Carried(row) == [f \in DOMAIN row \cap Flags |-> row[f]]

\* the flags noted for the bookmark id, none when nothing was noted
Due(id) == IF id \in DOMAIN net.due THEN net.due[id] ELSE << >>

Note(id, flags) ==
    [x \in DOMAIN net.due \cup {id} |-> IF x = id THEN flags ELSE net.due[x]]

\* what the updates of this run set: each its own flag
RaceUpdates == {[isFavorite |-> TRUE], [isPinned |-> TRUE]}

\* `.insert(row)`, `.update(row).eq('id', id)`, `.delete().eq('id', id)` on the
\* bookmarks table, each followed by its change event
Written(w) ==
    CASE w.op = "addBookmark" ->
            [net EXCEPT !.rows = Append(@, w.row),
                        !.feed = Append(@, [eventType |-> "INSERT", row |-> w.row,
                                            id |-> w.id])]
      [] w.op = "updateBookmark" ->
            IF w.id \in Ids(net.rows)
            THEN LET row == Spread(Find(net.rows, LAMBDA r : r.id = w.id)[1], w.row)
                 IN [net EXCEPT !.rows = Map(@, LAMBDA r : IF r.id = w.id THEN row ELSE r),
                                !.feed = Append(@, [eventType |-> "UPDATE", row |-> row,
                                                    id |-> w.id]),
                                !.due = Note(w.id, Spread(Due(w.id), Carried(w.row)))]
            ELSE net
      [] w.op = "deleteBookmark" ->
            IF w.id \in Ids(net.rows)
            THEN [net EXCEPT !.rows = SelectSeq(@, LAMBDA r : r.id # w.id),
                             !.feed = Append(@, [eventType |-> "DELETE", row |-> << >>,
                                                 id |-> w.id])]
            ELSE net

RaceFrame == UNCHANGED <<imp, local, hook, call, stored>>

ObserveRace(op, id) ==
    /\ last' = [op |-> op, id |-> id, n |-> 0]
    /\ pre' = NoPre
    /\ RaceFrame

\* the mutations, refetches and foreign writes a run begins
RaceSteps == MaxIds + 1

Begun(n) == [n EXCEPT !.begun = @ + 1]

\* a mutation the device begins: the backend's side has not heard of it yet
OnDevice(op, id) ==
    /\ net.begun < RaceSteps
    /\ net' = Begun(net)
    /\ ObserveRace(op, id)

\* the backend carries a write out and answers it without error
ServerConfirm(i) ==
    /\ ConfirmWrite(i)
    /\ net' = Written(pending[i])
    /\ ObserveRace("confirm", pending[i].op)

\* the backend, or the network, answers a write with an error
ServerReject(i) ==
    /\ FailWrite(i)
    /\ net' = [net EXCEPT !.rejected = TRUE]
    /\ ObserveRace("rollback", pending[i].op)

\* fetchFromSupabase() sends its selects: they read the table as it is now
StartFetch ==
    /\ ~fetching
    /\ net.begun < RaceSteps
    /\ fetchFromSupabase
    /\ net' = Begun([net EXCEPT !.fetched = <<net.rows>>])
    /\ ObserveRace("fetchFromSupabase", "")

\* the selects resolve: the store takes the rows they read
FinishFetch ==
    /\ net.fetched # << >>
    /\ FetchDone([bookmarks |-> net.fetched[1],
                  collections |-> collections,
                  tags |-> tags])
    /\ net' = [net EXCEPT !.fetched = << >>, !.due = << >>]
    /\ ObserveRace("fetchDone", "")

AbortFetch ==
    /\ net.fetched # << >>
    /\ FetchFailed
    /\ net' = [net EXCEPT !.fetched = << >>]
    /\ ObserveRace("fetchFailed", "")

\* the subscription delivers the oldest change event
Deliver ==
    /\ net.feed # << >>
    /\ LET e == Head(net.feed)
       IN /\ handleBookmarkChange(e.eventType, e.row, e.id)
          /\ net' = [net EXCEPT !.feed = Tail(@),
                                !.due = IF e.eventType = "UPDATE" /\ e.id \in Ids(bookmarks)
                                        THEN Note(e.id, Carried(e.row))
                                        ELSE @]
          /\ ObserveRace(RemoteOp("Bookmark", e.eventType), e.id)

\* another device archives a bookmark
OtherDeviceUpdates(id) ==
    /\ Subscribed
    /\ net.begun < RaceSteps
    /\ id \in Ids(net.rows)
    /\ ~Find(net.rows, LAMBDA r : r.id = id)[1].isArchived
    /\ LET row == Spread(Find(net.rows, LAMBDA r : r.id = id)[1], [isArchived |-> TRUE])
       IN net' = Begun([net EXCEPT !.rows = Map(@, LAMBDA r : IF r.id = id THEN row ELSE r),
                                   !.feed = Append(@, [eventType |-> "UPDATE", row |-> row,
                                                       id |-> id])])
    /\ UNCHANGED <<storeVars, envVars, nextId, clock, pending, fetching, last, pre>>
    /\ RaceFrame

InitRace ==
    /\ bookmarks = <<SavedBookmark("b1", "unsorted", << >>)>>
    /\ collections = defaultCollections
    /\ tags = defaultTags
    /\ user = "u1"
    /\ isSyncing = FALSE
    /\ demo = FALSE
    /\ configured = TRUE
    /\ online = TRUE
    /\ nextId = 0
    /\ clock = 0
    /\ pending = << >>
    /\ fetching = FALSE
    /\ imp = << >>
    /\ local = << >>
    /\ last = [op |-> "init", id |-> "", n |-> 0]
    /\ pre = NoPre
    /\ hook = NoHook
    /\ stored = NoBlob
    /\ call = NoCall
    /\ net = [rows |-> bookmarks, fetched |-> << >>, feed |-> << >>, due |-> << >>,
              begun |-> 0, rejected |-> FALSE]

NextRace ==
    \/ addBookmark(UrlA, "unsorted", << >>, FALSE) /\ OnDevice("addBookmark", "") /\ WithinRace
    \/ \E updates \in RaceUpdates :
          /\ "b1" \in Ids(bookmarks)
          /\ updateBookmark("b1", updates) /\ OnDevice("updateBookmark", "b1") /\ WithinRace
    \/ \E id \in Ids(bookmarks) : deleteBookmark(id) /\ OnDevice("deleteBookmark", id)
    \/ \E i \in DOMAIN pending : ServerConfirm(i)
    \/ \E i \in DOMAIN pending : ServerReject(i)
    \/ StartFetch
    \/ FinishFetch
    \/ AbortFetch
    \/ Deliver
    \/ OtherDeviceUpdates("b1")

SpecRace == InitRace /\ [][NextRace]_vars

\* C24: in every reachable state no two bookmarks share an id, no two
\* collections share an id and no two tags share an id, whatever the order of
\* local mutations, rollbacks of failed deletes, change events and refetches
C24_IdsAreUnique ==
    /\ \A b \in Range(bookmarks) : Carrying(bookmarks, b.id) = 1
    /\ \A c \in Range(collections) : Carrying(collections, c.id) = 1
    /\ \A t \in Range(tags) : Carrying(tags, t.id) = 1

\* the flags noted for a bookmark are the ones the store shows for it
CarriesDue(b) == \A f \in DOMAIN Due(b.id) : b[f] = Due(b.id)[f]

\* C25: once the rollback of a failed update has run and no write is in flight,
\* every bookmark still carries the flags set by the updates the backend
\* confirmed and by the realtime updates applied to it: the rollback of the
\* earlier update discards neither
C25_RollbackKeepsLaterUpdates ==
    (last.op = "rollback" /\ last.id = "updateBookmark" /\ pending = << >>)
        => \A b \in Range(bookmarks) : CarriesDue(b)

\* nothing is on its way: no write awaits its answer, no change event awaits
\* delivery, no select awaits its rows
Quiescent == pending = << >> /\ net.feed = << >> /\ net.fetched = << >> /\ ~fetching

\* C26: once every write is confirmed, every change event delivered and every
\* refetch completed, the store holds the bookmarks the backend holds
C26_StoreConverges ==
    (Quiescent /\ ~net.rejected) => Ids(bookmarks) = Ids(net.rows)

\* ------------------------------------------------------------------ the sidebar counts and the filtered list
\* the sections of the sidebar: the four views and every collection
Sections == {"all", "favorites", "archive", "trash"} \cup Ids(collections)

\* useFilteredBookmarks(): the filter by section, with an empty search query
\* and no selected tags (the sort that follows keeps the elements)
useFilteredBookmarks(activeSection) ==
    CASE activeSection = "all" ->
            SelectSeq(bookmarks, LAMBDA b : ~b.isTrashed /\ ~b.isArchived)
      [] activeSection = "favorites" ->
            SelectSeq(bookmarks, LAMBDA b : b.isFavorite /\ ~b.isTrashed)
      [] activeSection = "archive" ->
            SelectSeq(bookmarks, LAMBDA b : b.isArchived /\ ~b.isTrashed)
      [] activeSection = "trash" ->
            SelectSeq(bookmarks, LAMBDA b : b.isTrashed)
      [] OTHER ->
            SelectSeq(bookmarks, LAMBDA b : /\ b.collectionId = activeSection
                                            /\ ~b.isTrashed /\ ~b.isArchived)

getCollectionCount(collectionId) ==
    IF collectionId = "all"
    THEN Len(SelectSeq(bookmarks, LAMBDA b : ~b.isTrashed /\ ~b.isArchived))
    ELSE Len(SelectSeq(bookmarks, LAMBDA b : /\ b.collectionId = collectionId
                                             /\ ~b.isTrashed /\ ~b.isArchived))

getFavoritesCount == Len(SelectSeq(bookmarks, LAMBDA b : b.isFavorite /\ ~b.isTrashed))

getArchiveCount == Len(SelectSeq(bookmarks, LAMBDA b : b.isArchived))

getTrashCount == Len(SelectSeq(bookmarks, LAMBDA b : b.isTrashed))

\* the count the sidebar shows next to a section
CountShown(section) ==
    CASE section = "favorites" -> getFavoritesCount
      [] section = "archive" -> getArchiveCount
      [] section = "trash" -> getTrashCount
      [] OTHER -> getCollectionCount(section)

\* the timestamps of a run that flags bookmarks
ViewClock == MaxClock + 2

WithinViews == clock' <= ViewClock

InitViews ==
    /\ bookmarks = <<SavedBookmark("b1", "unsorted", << >>), SavedBookmark("b2", "c1", << >>)>>
    /\ collections = SavedCollections
    /\ tags = SavedTags
    /\ user = "none"
    /\ isSyncing = FALSE
    /\ demo = FALSE
    /\ configured = FALSE
    /\ online = TRUE
    /\ nextId = 0
    /\ clock = 0
    /\ pending = << >>
    /\ fetching = FALSE
    /\ imp = << >>
    /\ local = << >>
    /\ last = [op |-> "init", id |-> "", n |-> 0]
    /\ pre = NoPre
    /\ hook = NoHook
    /\ stored = NoBlob
    /\ net = NoNet
    /\ call = NoCall

NextViews ==
    \/ \E id \in Ids(bookmarks) :
          toggleFavorite(id) /\ Observe("toggleFavorite", id, 0) /\ WithinViews
    \/ \E id \in Ids(bookmarks) :
          toggleArchive(id) /\ Observe("toggleArchive", id, 0) /\ WithinViews
    \/ \E id \in Ids(bookmarks) :
          moveToTrash(id) /\ Observe("moveToTrash", id, 0) /\ WithinViews
    \/ \E id \in Ids(bookmarks) :
          restoreFromTrash(id) /\ Observe("restoreFromTrash", id, 0) /\ WithinViews
    \/ \E id \in Ids(bookmarks) :
          permanentlyDelete(id) /\ Observe("permanentlyDelete", id, 0)
    \/ emptyTrash /\ Observe("emptyTrash", "", 0)

SpecViews == InitViews /\ [][NextViews]_vars

\* the views among all, archive and trash that list the bookmark
ViewsListing(b) ==
    {v \in {"all", "archive", "trash"} : b \in Range(useFilteredBookmarks(v))}

\* every bookmark is listed in exactly one of the three views
OneViewEach == \A b \in Range(bookmarks) : Cardinality(ViewsListing(b)) = 1

\* C29: for every section the count shown equals the number of bookmarks the
\* filtered list returns for it with an empty search and no selected tags, and
\* every bookmark is listed in exactly one of the views all, archive and trash
C29_CountsMatchLists ==
    /\ \A section \in Sections :
          CountShown(section) = Len(useFilteredBookmarks(section))
    /\ OneViewEach

\* ------------------------------------------------------------------ the subscription after startup
\* timers fire, continuations that are ready run, getSession() and the selects
\* of fetchFromSupabase() come back, and the auth listener delivers its events
SpecHookLive ==
    /\ SpecHook
    /\ WF_vars(Mount)
    /\ WF_vars(Hydrate)
    /\ WF_vars(TimeoutFires)
    /\ WF_vars(SessionRecovered)
    /\ WF_vars(SyncGotSession)
    /\ WF_vars(\E res \in FetchOutcomes : SyncFetched(res))
    /\ WF_vars(\E res \in FetchOutcomes : HandlerFetched(res))
    /\ WF_vars(\E event \in AuthEvents : AuthStateChange(event))

\* the app has started over a configured backend with a valid session
StartedWithSession ==
    hook # NoHook /\ configured /\ hook.pc = "hydrating" /\ hook.session = "u1"

\* the offline branch ended without the session: getSession() rejected
RecoveryFailed ==
    /\ hook.pc = "listening"
    /\ hook.sync = "idle"
    /\ ~hook.hasAuthenticatedRef
    /\ hook.events = 0

\* a realtime subscription is active, or the session is over: the user signed
\* out, the hook was unmounted, or getSession() failed to return the session
SubscribedOrOver ==
    /\ hook # NoHook
    /\ \/ hook.active # {}
       \/ hook.session = "none"
       \/ hook.pc = "unmounted"
       \/ hook.sync = "failed"
       \/ RecoveryFailed

\* C28: when the app starts with a valid session and the device ends up
\* online, a realtime subscription is eventually active, on every startup
\* branch, the offline start over a cache included
C28_SubscriptionEventuallyActive ==
    <>[]online => (StartedWithSession ~> SubscribedOrOver)

====
